---- MODULE Spec2Model ----
(***************************************************************************)
(* bookbaker: the pipeline of src/bookbaker/__main__.py (fan-in loop,      *)
(* crawl wrapper, per-task lock, scheduled translation tasks, gather,      *)
(* export) and the translation engine of src/bookbaker/roles/gpt.py,       *)
(* gemini.py and deepl.py (batching, validation, bounded retry).           *)
(*                                                                         *)
(* Spec      the pipeline: every action is the code between two await      *)
(*           points of one coroutine.                                      *)
(* SpecCall  one translator.translate call on one episode, attempt by      *)
(*           attempt.                                                      *)
(***************************************************************************)
EXTENDS Integers, Sequences, FiniteSets, TLC

None == "None"

(***************************************************************************)
(* Bounds of the model.                                                    *)
(***************************************************************************)
\* episodes listed on the index page of task A's source
NumEpisodes == 2
\* batch_size of the translators of the pipeline (characters per batch)
PipeBatchSize == 1

\* config.tasks
Tasks == {"A", "B"}
\* role.name of config.roles: two translators and two exporters
roles == {"gpt", "gemini", "epub", "epub2"}
\* task.translator of the configurations explored: task A names a chain of two
\* translators; task B names none (None or [], written << >>), one, or a name
\* that is not registered
Chains(t) ==
    IF t = "A" THEN {<<"gpt", "gemini">>}
    ELSE {<< >>, <<"gpt">>, <<"nope">>}
\* episodes on the index page of a task's source
Episodes(t) == IF t = "A" THEN NumEpisodes ELSE 1
\* the lines get_episode builds for an episode: two characters, blank, one
SourceContents == << <<"x", "y">>, << >>, <<"z">> >>

(***************************************************************************)
(* Line, Episode (classes.py) and the batching loop of the translators.    *)
(***************************************************************************)
\* Line(content=...): translated = None, candidates = {}
Line(content) == [content |-> content, translated |-> None, candidates |-> << >>]

\* not line.content.strip()
IsBlank(content) == \A i \in 1..Len(content) : content[i] = " "

\* Episode.fully_translated
fully_translated(lines) ==
    \A i \in 1..Len(lines) :
        IsBlank(lines[i].content) \/ lines[i].translated # None

\* IsPending without the skip_translated test
IsPendingIgnoreSkip(line, skip_translated) == ~IsBlank(line.content)

\* IsPending without the whitespace test
IsPendingBlankToo(line, skip_translated) ==
    ~(skip_translated /\ line.translated # None)

\* the two `continue` tests at the head of the line loop
IsPending(line, skip_translated) ==
    /\ ~IsBlank(line.content)
    /\ ~(skip_translated /\ line.translated # None)

RECURSIVE ScanBatch(_, _, _, _, _, _)
\* the line loop from line i on, with the batch collected so far, up to the
\* next flush (c_cnt > MAX_CNT) or the end of the lines (final: the batch left
\* for `if indexes:` after the loop)
ScanBatch(lines, i, indexes, c_cnt, skip_translated, MAX_CNT) ==
    IF i > Len(lines) THEN [indexes |-> indexes, next |-> i, final |-> TRUE]
    ELSE IF ~IsPending(lines[i], skip_translated)
    THEN ScanBatch(lines, i + 1, indexes, c_cnt, skip_translated, MAX_CNT)
    ELSE LET idx == Append(indexes, i)
             cnt == c_cnt + Len(lines[i].content)
         IN  IF cnt > MAX_CNT
             THEN [indexes |-> idx, next |-> i + 1, final |-> FALSE]
             ELSE ScanBatch(lines, i + 1, idx, cnt, skip_translated, MAX_CNT)

\* line.candidates[name] = v
SetCandidate(candidates, name, v) ==
    [n \in (DOMAIN candidates) \cup {name} |->
        IF n = name THEN v ELSE candidates[n]]

\* SetLine without line.candidates[self.name] = v
SetLineNoCandidate(line, name, v) == [line EXCEPT !.translated = v]

\* line.translated = v; line.candidates[self.name] = v
SetLine(line, name, v) ==
    [line EXCEPT !.translated = v,
                 !.candidates = SetCandidate(line.candidates, name, v)]

\* for j, v in zip(indexes, translated): the first n pairs
ApplyFirst(lines, indexes, translated, name, n) ==
    [j \in 1..Len(lines) |->
        IF \E p \in 1..n : indexes[p] = j
        THEN SetLine(lines[j], name,
                     translated[CHOOSE p \in 1..n : indexes[p] = j])
        ELSE lines[j]]

Min(a, b) == IF a < b THEN a ELSE b

\* for j, v in zip(indexes, translated): ...
ApplyBatch(lines, indexes, translated, name) ==
    ApplyFirst(lines, indexes, translated, name,
               Min(Len(indexes), Len(translated)))

(***************************************************************************)
(* The pipeline.                                                           *)
(***************************************************************************)
VARIABLES
    chain,      \* task.translator of every task
    crawlpc,    \* where the crawl(...) generator of every task stands
    lock,       \* task.lock: locked flag and FIFO waiters
    book,       \* the in-memory Book of every task: episodes of lines
    store,      \* ctx.db: the records matching every task's book (none or one)
    ready,      \* results select has ready for the consumer, oldest first
    aiotasks,   \* the translate(...) tasks main has created
    mainpc,     \* where main stands
    log,        \* what was logged
    exported    \* tasks whose exporters were run

pvars == <<chain, crawlpc, lock, book, store, ready, aiotasks, mainpc, log,
           exported>>

(***************************************************************************)
(* One translator.translate call (SpecCall).                               *)
(***************************************************************************)
VARIABLES
    cfg,        \* the translator: class, skip_translated, max_retries, batch_size
    epi,        \* the episode: lines, title_translated, notes_translated
    bookm,      \* the book argument: present or not, its translated metadata
    chapm,      \* the chapter argument: present or not, its title_translated
    cpc,        \* where the call stands
    req,        \* the payload c of the inner translate(c) in progress
    retry,      \* retry of the inner translate(c)
    o_bound,    \* gemini: the local variable o has been assigned
    upserts,    \* the snapshots the call wrote with db.upsert, in order
    err,        \* the exception the call raised
    tries,      \* times the payload in progress was sent
    waits,      \* asyncio.sleep(1) calls for the payload in progress
    pre0,       \* the lines when the call began
    batches,    \* the line batches sent so far, as lists of line indexes
    answers,    \* the accepted response of each of them
    lastresp,   \* the last response received, and whether it was accepted
    extra       \* task.extra: the names under which it holds a session

evars == <<cfg, epi, bookm, chapm, cpc, req, retry, o_bound, upserts, err,
           tries, waits, pre0, batches, answers, lastresp, extra>>

(***************************************************************************)
(* The document store under upserts (SpecStore).                           *)
(***************************************************************************)
VARIABLES
    db,         \* the documents of the store, in insertion order
    written     \* the last upsert: who issued it, and the book it carried

svars == <<db, written>>

(***************************************************************************)
(* The export stage of main, exporter by exporter (SpecExport).            *)
(***************************************************************************)
VARIABLES
    xcfg,       \* per task: task.exporter, and whether db.get finds its book
    xpc,        \* where main is in the export stage
    xi,         \* position of `for task in config.tasks`
    xj,         \* position of `for exporter in exporters`
    invoked,    \* the (task, exporter position) pairs whose export was called
    xlog        \* the critical records of the export stage

xvars == <<xcfg, xpc, xi, xj, invoked, xlog>>

(***************************************************************************)
(* One crawl_stream call over one chapter of a book (SpecCrawl).           *)
(***************************************************************************)
VARIABLES
    kindex,     \* the index page: title and update instant of every episode
    kstored,    \* the episodes of the chapter in the store when the call began
    kchap,      \* chapter.episodes of the book in memory
    kpc,        \* where crawl_stream stands
    ki,         \* position in the index page
    kfetched,   \* the index positions whose episode page was fetched
    kdb         \* the chapter as the last db.upsert wrote it

kvars == <<kindex, kstored, kchap, kpc, ki, kfetched, kdb>>

(***************************************************************************)
(* The text escapes of utils.py applied to one string (SpecText).          *)
(***************************************************************************)
VARIABLES
    tkind,      \* the pair of functions applied: ruby or repetition
    tin,        \* the input string, character by character (for the
                \* channel: the batch, a sequence of such lines)
    tesc,       \* escape_ruby / escape_repetition of the input
    tback,      \* unescape_ruby / unescape_repetition of that
    tpc         \* how far the two functions were applied

tvars == <<tkind, tin, tesc, tback, tpc>>

(***************************************************************************)
(* The message history of one conversational session over the translate    *)
(* calls of one GPT or Gemini translator (SpecSession).                     *)
(***************************************************************************)
VARIABLES
    hkind,      \* the translator class: gpt or gemini
    hgloss,     \* task.glossaries is not empty
    hinterval,  \* remind_interval
    hlists,     \* the list objects: 1 and 2, each a sequence of messages
    hmsgs,      \* the list object sess.messages refers to
    hsnap,      \* the history when the current batch was first sent
    hcycle,     \* cycle
    hretry,     \* retry of the inner translate
    hatt,       \* the number of attempts made so far
    hfailed,    \* the attempts that failed
    hlast,      \* how the last attempt ended
    hpc         \* where the translate call stands

hvars == <<hkind, hgloss, hinterval, hlists, hmsgs, hsnap, hcycle, hretry,
           hatt, hfailed, hlast, hpc>>

(***************************************************************************)
(* The sessions kept in task.extra over the translate calls of several     *)
(* translators and tasks (SpecScope).                                      *)
(***************************************************************************)
VARIABLES
    oextra,     \* task.extra of every task: translator name -> session
    onew,       \* the sessions backend.new_session() has made so far
    ohist,      \* the number of calls whose messages each session holds
    ocalls,     \* the calls made: task, translator name, session, and what
                \* the session held when the call began
    ocur        \* the call that is running, or Nothing

ovars == <<oextra, onew, ohist, ocalls, ocur>>

(***************************************************************************)
(* crawl_stream over the chapters and episodes of one book (SpecTree).     *)
(***************************************************************************)
VARIABLES
    bindex,     \* the index page: chapter titles and episode entries
    bstored,    \* book.chapters of the stored record, << >> without one
    bbook,      \* book.chapters
    bchapter,   \* the position in book.chapters of `chapter`
    bi,         \* the position on the index page of the loop
    bpc,        \* where crawl_stream stands
    bdb,        \* book.chapters of the record in the store, << >>
                \* without one
    bsite,      \* the crawler class that runs
    bruns       \* the crawl runs begun against the store

bvars == <<bindex, bstored, bbook, bchapter, bi, bpc, bdb, bsite, bruns>>

(***************************************************************************)
(* translate calls of one GPTTranslator on several tasks at once           *)
(* (SpecPrompt).                                                           *)
(***************************************************************************)
VARIABLES
    qprompt,    \* self.backend.prompt of the translator both tasks name
    qpc,        \* per task: whether a translate call of the task is running
    qep,        \* per task: the episode of its running (or last) call
    qn,         \* per task: the requests its running call has sent
    qsent       \* the requests sent: task, episode, and the system prompt
                \* the backend held when the request went out

qvars == <<qprompt, qpc, qep, qn, qsent>>

(***************************************************************************)
(* translate calls of DeepLTranslator with the glossary of the task        *)
(* (SpecGlossary).                                                         *)
(***************************************************************************)
VARIABLES
    gcfg,       \* the call: whether the task has glossaries, the language
                \* pair has glossary support, a book is passed, lines pend
    gpc,        \* where translate stands
    gid,        \* gid of the call
    glive,      \* the glossaries the backend holds
    gmade,      \* the glossaries glossary_create has made so far
    gdel,       \* the ids glossary_delete was called with, in order
    gleft,      \* the requests of the try block still to make
    gexit,      \* how the try block was left
    gcalls      \* the translate calls begun

gvars == <<gcfg, gpc, gid, glive, gmade, gdel, gleft, gexit, gcalls>>

vars == <<pvars, evars, svars, xvars, kvars, tvars, hvars, ovars, bvars, qvars, gvars>>

\* what the actions of the pipeline leave alone
notpipe == <<evars, svars, xvars, kvars, tvars, hvars, ovars, bvars, qvars, gvars>>
\* what the actions of a translate call leave alone
notcall == <<pvars, svars, xvars, kvars, tvars, hvars, ovars, bvars, qvars, gvars>>
\* what the actions on the store leave alone
notstore == <<pvars, evars, xvars, kvars, tvars, hvars, ovars, bvars, qvars, gvars>>
\* what the actions of the export stage leave alone
notexport == <<pvars, evars, svars, kvars, tvars, hvars, ovars, bvars, qvars, gvars>>
\* what the actions of crawl_stream leave alone
notcrawl == <<pvars, evars, svars, xvars, tvars, hvars, ovars, bvars, qvars, gvars>>
\* what the actions of the text escapes leave alone
nottext == <<pvars, evars, svars, xvars, kvars, hvars, ovars, bvars, qvars, gvars>>
\* what the actions of the actions on a session leave alone
notsession == <<pvars, evars, svars, xvars, kvars, tvars, ovars, bvars, qvars, gvars>>
\* what the actions of the actions on task.extra leave alone
notscope == <<pvars, evars, svars, xvars, kvars, tvars, hvars, bvars, qvars, gvars>>
\* what the actions of the actions on the book tree leave alone
nottree == <<pvars, evars, svars, xvars, kvars, tvars, hvars, ovars, qvars, gvars>>
\* what the actions of SpecPrompt leave alone
notprompt == <<pvars, evars, svars, xvars, kvars, tvars, hvars, ovars, bvars, gvars>>
\* what the actions of SpecGlossary leave alone
notglossary == <<pvars, evars, svars, xvars, kvars, tvars, hvars, ovars, bvars, qvars>>

\* no payload, no translator, no episode
Nothing == [kind |-> "none"]
\* no response received yet
NoResponse ==
    [kind |-> "none", n |-> 0, m |-> 0, keys |-> {}, cn |-> 0, ckeys |-> {},
     ok |-> FALSE]

\* no translator call is being examined
CallIdle ==
    /\ cfg = Nothing /\ epi = Nothing /\ bookm = Nothing /\ chapm = Nothing
    /\ cpc = "idle" /\ req = Nothing /\ retry = 0 /\ o_bound = FALSE
    /\ upserts = << >> /\ err = None /\ tries = 0 /\ waits = 0
    /\ pre0 = << >> /\ batches = << >> /\ answers = << >>
    /\ lastresp = NoResponse
    /\ extra = {}

\* the pipeline stands still while one call is examined
PipeIdle ==
    /\ chain = [t \in Tasks |-> << >>]
    /\ crawlpc = [t \in Tasks |-> "done"]
    /\ lock = [t \in Tasks |-> [locked |-> FALSE, waiters |-> << >>]]
    /\ book = [t \in Tasks |-> << >>]
    /\ store = [t \in Tasks |-> << >>]
    /\ ready = << >>
    /\ aiotasks = [t \in Tasks |-> << >>]
    /\ mainpc = "done"
    /\ log = {}
    /\ exported = {}

\* no upsert is being examined
StoreIdle == db = << >> /\ written = Nothing

\* the export stage is not being examined
ExportIdle ==
    /\ xcfg = Nothing /\ xpc = "idle" /\ xi = 0 /\ xj = 0
    /\ invoked = {} /\ xlog = {}

\* no crawl_stream call is being examined
CrawlIdle ==
    /\ kindex = << >> /\ kstored = << >> /\ kchap = << >> /\ kpc = "idle"
    /\ ki = 0 /\ kfetched = {} /\ kdb = << >>

\* no string is being escaped
TextIdle ==
    /\ tkind = "none" /\ tin = << >> /\ tesc = << >> /\ tback = << >>
    /\ tpc = "idle"

\* no session is being examined
SessionIdle ==
    /\ hkind = "none" /\ hgloss = FALSE /\ hinterval = 0
    /\ hlists = << >> /\ hmsgs = 0 /\ hsnap = << >> /\ hcycle = 0
    /\ hretry = 0 /\ hatt = 0 /\ hfailed = {} /\ hlast = "none"
    /\ hpc = "idle"

\* no task.extra is being examined
ScopeIdle ==
    /\ oextra = << >> /\ onew = 0 /\ ohist = << >> /\ ocalls = << >>
    /\ ocur = Nothing

\* no book tree is being examined
TreeIdle ==
    /\ bindex = << >> /\ bstored = << >> /\ bbook = << >> /\ bchapter = 0
    /\ bi = 0 /\ bpc = "idle" /\ bdb = << >> /\ bsite = "none" /\ bruns = 0

\* no shared backend is being examined
PromptIdle ==
    /\ qprompt = Nothing /\ qpc = << >> /\ qep = << >> /\ qn = << >>
    /\ qsent = << >>

\* no glossary is being examined
GlossaryIdle ==
    /\ gcfg = Nothing /\ gpc = "none" /\ gid = 0 /\ glive = {} /\ gmade = 0
    /\ gdel = << >> /\ gleft = 0 /\ gexit = "none" /\ gcalls = 0

\* the crawl wrapper among the waiters of a lock (translation tasks wait under
\* their index in aiotasks)
CrawlId == 0

Running == mainpc \in {"select", "gather"}

\* asyncio.Lock.acquire takes the lock at once iff it is unlocked and nobody
\* waits for it
LockFree(l) == ~l.locked /\ l.waiters = << >>

\* asyncio.Lock.release
Released(l) == [l EXCEPT !.locked = FALSE]

\* acquire by `who`: taken at once, or queued
Acquired(l, who) ==
    IF LockFree(l) THEN [l EXCEPT !.locked = TRUE]
    ELSE [l EXCEPT !.waiters = Append(@, who)]

\* the first waiter is woken by release and takes the lock
CanWake(l, who) == ~l.locked /\ l.waiters # << >> /\ Head(l.waiters) = who
Woken(l) == [locked |-> TRUE, waiters |-> Tail(l.waiters)]

Init ==
    /\ CallIdle
    /\ StoreIdle
    /\ ExportIdle
    /\ CrawlIdle
    /\ TextIdle
    /\ SessionIdle
    /\ ScopeIdle
    /\ TreeIdle
    /\ PromptIdle
    /\ GlossaryIdle
    /\ chain \in {c \in [Tasks -> UNION {Chains(t) : t \in Tasks}] :
                    \A t \in Tasks : c[t] \in Chains(t)}
    /\ crawlpc = [t \in Tasks |-> "new"]
    /\ lock = [t \in Tasks |-> [locked |-> FALSE, waiters |-> << >>]]
    /\ book = [t \in Tasks |-> << >>]
    /\ store = [t \in Tasks |-> << >>]
    /\ ready = << >>
    /\ aiotasks = [t \in Tasks |-> << >>]
    /\ mainpc = "select"
    /\ log = {}
    /\ exported = {}

(***************************************************************************)
(* crawl(crawler, t, ctx): the wrapper generator around                    *)
(* crawler.crawl_stream, driven by select.                                 *)
(***************************************************************************)
\* an entry of the log
LogEntry(kind, t, e, k, level) ==
    [kind |-> kind, task |-> t, ep |-> e, k |-> k, level |-> level]

\* select's first anext: `async with t.lock`, then crawl_stream starts
CrawlStart(t) ==
    /\ mainpc = "select"
    /\ crawlpc[t] = "new"
    /\ lock' = [lock EXCEPT ![t] = Acquired(@, CrawlId)]
    /\ crawlpc' = [crawlpc EXCEPT ![t] =
                      IF LockFree(lock[t]) THEN "crawling" ELSE "waitlock"]
    /\ UNCHANGED <<notpipe, chain, book, store, ready, aiotasks, mainpc, log, exported>>

\* crawl_stream fetches the next episode, appends it, upserts the book and
\* yields; the wrapper releases the lock and yields to select
CrawlEpisode(t) ==
    /\ Running
    /\ crawlpc[t] = "crawling"
    /\ Len(book[t]) < Episodes(t)
    /\ LET episode == [i \in 1..Len(SourceContents) |-> Line(SourceContents[i])]
           b == Append(book[t], episode)
       IN  /\ book' = [book EXCEPT ![t] = b]
           /\ store' = [store EXCEPT ![t] = <<b>>]
           /\ ready' = Append(ready, [src |-> t, ok |-> TRUE, ep |-> Len(b)])
    /\ lock' = [lock EXCEPT ![t] = Released(@)]
    /\ crawlpc' = [crawlpc EXCEPT ![t] = "yielded"]
    /\ UNCHANGED <<notpipe, chain, aiotasks, mainpc, log, exported>>

\* crawl_stream raises (a fetch or a parse fails): `async with` releases the
\* lock and select gets a failed result for this source
CrawlFail(t) ==
    /\ Running
    /\ crawlpc[t] = "crawling"
    /\ lock' = [lock EXCEPT ![t] = Released(@)]
    /\ crawlpc' = [crawlpc EXCEPT ![t] = "failed"]
    /\ ready' = Append(ready, [src |-> t, ok |-> FALSE, ep |-> 0])
    /\ UNCHANGED <<notpipe, chain, book, store, aiotasks, mainpc, log, exported>>

\* no episode is left: the last upsert, crawl_stream ends, `async with`
\* releases the lock
CrawlFinish(t) ==
    /\ Running
    /\ crawlpc[t] = "crawling"
    /\ Len(book[t]) = Episodes(t)
    /\ store' = [store EXCEPT ![t] = <<book[t]>>]
    /\ lock' = [lock EXCEPT ![t] = Released(@)]
    /\ crawlpc' = [crawlpc EXCEPT ![t] = "done"]
    /\ UNCHANGED <<notpipe, chain, book, ready, aiotasks, mainpc, log, exported>>

\* CrawlResume without `await t.lock.acquire()`: the wrapper resumes
\* crawl_stream at once
CrawlResumeNoAcquire(t) ==
    /\ mainpc = "select"
    /\ crawlpc[t] = "yielded"
    /\ crawlpc' = [crawlpc EXCEPT ![t] = "crawling"]
    /\ UNCHANGED <<notpipe, chain, lock, book, store, ready, aiotasks, mainpc, log, exported>>

\* select's next anext resumes the wrapper at `await t.lock.acquire()`
CrawlResume(t) ==
    /\ mainpc = "select"
    /\ crawlpc[t] = "yielded"
    /\ lock' = [lock EXCEPT ![t] = Acquired(@, CrawlId)]
    /\ crawlpc' = [crawlpc EXCEPT ![t] =
                      IF LockFree(lock[t]) THEN "crawling" ELSE "waitlock"]
    /\ UNCHANGED <<notpipe, chain, book, store, ready, aiotasks, mainpc, log, exported>>

\* the waiting wrapper gets the lock
CrawlWake(t) ==
    /\ Running
    /\ crawlpc[t] = "waitlock"
    /\ CanWake(lock[t], CrawlId)
    /\ lock' = [lock EXCEPT ![t] = Woken(@)]
    /\ crawlpc' = [crawlpc EXCEPT ![t] = "crawling"]
    /\ UNCHANGED <<notpipe, chain, book, store, ready, aiotasks, mainpc, log, exported>>

(***************************************************************************)
(* translate(task, book, chapter, episode) of main, one asyncio task per   *)
(* delivered result.                                                       *)
(***************************************************************************)
\* loop.create_task(translate(task, book, chapter, episode))
NewTask(t, e) ==
    [task |-> t, ep |-> e, pc |-> "new", k |-> 0, batch |-> << >>, next |-> 0,
     pre |-> << >>, applied |-> {}, seen |-> 0]

\* inside `async with task.lock`, from the first translator's call on
InChain(x) == x.pc \in {"lines", "upsert"}

\* get_role(name)
get_role(name) == IF name \in roles THEN name ELSE "ValueError"

\* the lines of the episode a task translates
LinesOf(x) == book[x.task][x.ep]

\* the line loop of a call after a flush (or from its start, next = 1): on
\* to the next flush, or to the upsert
Scanned(x, lines) ==
    LET s == ScanBatch(lines, x.next, << >>, 0, TRUE, PipeBatchSize)
    IN  [x EXCEPT !.pc = IF s.indexes = << >> THEN "upsert" ELSE "lines",
                  !.batch = s.indexes, !.next = s.next]

\* the for loop over translators from translator k on, the episode's lines
\* being `lines`: a translator returns at once when the episode is fully
\* translated (skip_translated); otherwise its call begins: the metadata
\* requests and the line loop up to the first flush. translate returns after
\* the last translator
CallFrom(x, k, lines) ==
    IF k > Len(chain[x.task]) \/ fully_translated(lines)
    THEN [NewTask(x.task, x.ep) EXCEPT !.pc = "done"]
    ELSE Scanned([x EXCEPT !.k = k, !.next = 1, !.pre = lines, !.applied = {}],
                 lines)

\* the lock is held: the translators are looked up, then called in order
Enter(x) ==
    IF \E p \in 1..Len(chain[x.task]) : get_role(chain[x.task][p]) = "ValueError"
    THEN [x EXCEPT !.pc = "failed"]
    ELSE CallFrom([x EXCEPT !.seen = Len(book[x.task])], 1, LinesOf(x))

\* the task's record changes; leaving `async with` releases the lock
TaskStep(t, e, x2) ==
    /\ aiotasks' = [aiotasks EXCEPT ![t][e] = x2]
    /\ lock' = IF x2.pc \in {"done", "failed"}
               THEN [lock EXCEPT ![t] = Released(@)]
               ELSE lock

\* the translation task of the e-th result of task t is at pc
At(t, e, pc) == e \in DOMAIN aiotasks[t] /\ aiotasks[t][e].pc = pc

\* TrStart by a loop that runs the first steps of the tasks it was given in
\* any order
TrStartAnyOrder(t, e) ==
    /\ Running
    /\ At(t, e, "new")
    /\ LET x == aiotasks[t][e]
       IN  IF chain[t] = << >>
           THEN /\ aiotasks' = [aiotasks EXCEPT ![t][e].pc = "done"]
                /\ UNCHANGED lock
           ELSE IF LockFree(lock[t])
           THEN LET x2 == Enter(x)
                IN  /\ aiotasks' = [aiotasks EXCEPT ![t][e] = x2]
                    /\ lock' = [lock EXCEPT ![t].locked = InChain(x2)]
           ELSE /\ aiotasks' = [aiotasks EXCEPT ![t][e].pc = "waitlock"]
                /\ lock' = [lock EXCEPT ![t] = Acquired(@, e)]
    /\ UNCHANGED <<notpipe, chain, crawlpc, book, store, ready, mainpc, log, exported>>

\* the task starts: nothing to do without translators, else `async with
\* task.lock`. loop.create_task schedules the first step of each task behind
\* those of the tasks made before it, and translate does not await before
\* its `async with`
TrStart(t, e) ==
    /\ Running
    /\ At(t, e, "new")
    /\ \A e1 \in 1..(e - 1) : ~At(t, e1, "new")
    /\ LET x == aiotasks[t][e]
       IN  IF chain[t] = << >>
           THEN /\ aiotasks' = [aiotasks EXCEPT ![t][e].pc = "done"]
                /\ UNCHANGED lock
           ELSE IF LockFree(lock[t])
           THEN LET x2 == Enter(x)
                IN  /\ aiotasks' = [aiotasks EXCEPT ![t][e] = x2]
                    /\ lock' = [lock EXCEPT ![t].locked = InChain(x2)]
           ELSE /\ aiotasks' = [aiotasks EXCEPT ![t][e].pc = "waitlock"]
                /\ lock' = [lock EXCEPT ![t] = Acquired(@, e)]
    /\ UNCHANGED <<notpipe, chain, crawlpc, book, store, ready, mainpc, log, exported>>

\* the waiting task gets the lock
TrWake(t, e) ==
    /\ Running
    /\ At(t, e, "waitlock")
    /\ CanWake(lock[t], e)
    /\ LET x2 == Enter(aiotasks[t][e])
       IN  /\ aiotasks' = [aiotasks EXCEPT ![t][e] = x2]
           /\ lock' = [lock EXCEPT ![t] =
                          [locked |-> InChain(x2), waiters |-> Tail(@.waiters)]]
    /\ UNCHANGED <<notpipe, chain, crawlpc, book, store, ready, mainpc, log, exported>>

\* except Exception: logger.exception(e), critical for the last translator,
\* warning otherwise
Logged(x) ==
    log \cup {LogEntry("translate", x.task, x.ep, x.k,
                IF x.k = Len(chain[x.task]) THEN "critical" ELSE "warning")}

\* CallRaised that leaves the loop over the translators
CallRaisedEndsChain(t, e) ==
    /\ TaskStep(t, e, [NewTask(t, e) EXCEPT !.pc = "done"])
    /\ log' = Logged(aiotasks[t][e])
    /\ UNCHANGED <<notpipe, chain, crawlpc, book, store, ready, mainpc, exported>>

\* translator.translate raised: it is logged and the loop goes on
CallRaised(t, e) ==
    /\ TaskStep(t, e, CallFrom(aiotasks[t][e], aiotasks[t][e].k + 1,
                               LinesOf(aiotasks[t][e])))
    /\ log' = Logged(aiotasks[t][e])
    /\ UNCHANGED <<notpipe, chain, crawlpc, book, store, ready, mainpc, exported>>

\* the pending batch (before the first one, the metadata requests) is answered
\* by a valid response: it is applied and the line loop runs to its next
\* flush, or to the upsert
TrBatchOk(t, e) ==
    /\ Running
    /\ At(t, e, "lines")
    /\ LET x == aiotasks[t][e]
           name == chain[t][x.k]
           translated == [p \in 1..Len(x.batch) |-> name]
           lines == ApplyBatch(LinesOf(x), x.batch, translated, name)
       IN  /\ book' = [book EXCEPT ![t][x.ep] = lines]
           /\ aiotasks' = [aiotasks EXCEPT ![t][e] =
                  Scanned([x EXCEPT !.applied =
                              @ \cup {x.batch[p] : p \in 1..Len(x.batch)}], lines)]
    /\ UNCHANGED <<notpipe, chain, crawlpc, lock, store, ready, mainpc, log, exported>>

\* the pending batch (or, before the first one, a metadata request) fails for
\* good: the retry bound is exceeded and translator.translate raises
TrBatchFatal(t, e) ==
    /\ Running
    /\ At(t, e, "lines")
    /\ CallRaised(t, e)

\* await db.upsert(book.model_dump(...)); return episode
TrUpsertOk(t, e) ==
    /\ Running
    /\ At(t, e, "upsert")
    /\ LET x == aiotasks[t][e]
       IN  /\ store' = [store EXCEPT ![t] = <<book[t]>>]
           /\ TaskStep(t, e, CallFrom(x, x.k + 1, LinesOf(x)))
    /\ UNCHANGED <<notpipe, chain, crawlpc, book, ready, mainpc, log, exported>>

\* the upsert raises
TrUpsertFail(t, e) ==
    /\ Running
    /\ At(t, e, "upsert")
    /\ CallRaised(t, e)

(***************************************************************************)
(* main: the fan-in loop, gather, export, close.                           *)
(***************************************************************************)
\* MainPull with the translation awaited in the loop body: the next result is
\* taken when the translations scheduled so far have returned
MainPullAwaited ==
    /\ mainpc = "select"
    /\ ready # << >>
    /\ Head(ready).ok
    /\ \A t \in Tasks : \A e \in DOMAIN aiotasks[t] : aiotasks[t][e].pc = "done"
    /\ aiotasks' = [aiotasks EXCEPT ![Head(ready).src] =
                       Append(@, NewTask(Head(ready).src, Head(ready).ep))]
    /\ ready' = Tail(ready)
    /\ UNCHANGED <<notpipe, chain, crawlpc, lock, book, store, mainpc, log, exported>>

\* MainPull that takes the result that became ready last
MainPullLast ==
    /\ mainpc = "select"
    /\ ready # << >>
    /\ ready[Len(ready)].ok
    /\ aiotasks' = [aiotasks EXCEPT ![ready[Len(ready)].src] =
                       Append(@, NewTask(ready[Len(ready)].src,
                                         ready[Len(ready)].ep))]
    /\ ready' = SubSeq(ready, 1, Len(ready) - 1)
    /\ UNCHANGED <<notpipe, chain, crawlpc, lock, book, store, mainpc, log, exported>>

\* async for fut in select(...): a result; the translation is scheduled
MainPull ==
    /\ mainpc = "select"
    /\ ready # << >>
    /\ Head(ready).ok
    /\ aiotasks' = [aiotasks EXCEPT ![Head(ready).src] =
                       Append(@, NewTask(Head(ready).src, Head(ready).ep))]
    /\ ready' = Tail(ready)
    /\ UNCHANGED <<notpipe, chain, crawlpc, lock, book, store, mainpc, log, exported>>

\* fut.result() raises: logged, continue
MainCrawlFailed ==
    /\ mainpc = "select"
    /\ ready # << >>
    /\ ~Head(ready).ok
    /\ log' = log \cup {LogEntry("crawl", Head(ready).src, 0, 0, "critical")}
    /\ ready' = Tail(ready)
    /\ UNCHANGED <<notpipe, chain, crawlpc, lock, book, store, aiotasks, mainpc, exported>>

\* every source is exhausted: select ends
MainSelectEnd ==
    /\ mainpc = "select"
    /\ ready = << >>
    /\ \A t \in Tasks : crawlpc[t] \in {"done", "failed"}
    /\ mainpc' = "gather"
    /\ UNCHANGED <<notpipe, chain, crawlpc, lock, book, store, ready, aiotasks, log, exported>>

\* GatherDone that returns as soon as one task has returned
GatherFirstDone ==
    /\ mainpc = "gather"
    /\ \E t \in Tasks : \E e \in DOMAIN aiotasks[t] : aiotasks[t][e].pc = "done"
    /\ mainpc' = "export"
    /\ UNCHANGED <<notpipe, chain, crawlpc, lock, book, store, ready, aiotasks, log, exported>>

\* await asyncio.gather(*aiotasks): every task has returned
GatherDone ==
    /\ mainpc = "gather"
    /\ \A t \in Tasks : \A e \in DOMAIN aiotasks[t] : aiotasks[t][e].pc = "done"
    /\ mainpc' = "export"
    /\ UNCHANGED <<notpipe, chain, crawlpc, lock, book, store, ready, aiotasks, log, exported>>

\* the tasks that have not finished are cancelled when main ends by an
\* exception
Cancelled(tasks) ==
    [t \in Tasks |-> [e \in DOMAIN tasks[t] |->
        IF tasks[t][e].pc \in {"done", "failed"} THEN tasks[t][e]
        ELSE [tasks[t][e] EXCEPT !.pc = "cancelled"]]]

\* await asyncio.gather(*aiotasks): a task has raised; gather raises it in
\* main, which ends with that exception
GatherRaise ==
    /\ mainpc = "gather"
    /\ \E t \in Tasks : \E e \in DOMAIN aiotasks[t] : aiotasks[t][e].pc = "failed"
    /\ mainpc' = "raised"
    /\ aiotasks' = Cancelled(aiotasks)
    /\ UNCHANGED <<notpipe, chain, crawlpc, lock, book, store, ready, log, exported>>

\* the crawl wrapper is ended where it stands (its pending anext is cancelled,
\* or the generator is closed at its yield): the exception goes through the
\* body of `async with t.lock`, whose exit calls t.lock.release(). The
\* wrapper holds the lock only while crawl_stream runs; at its yield it has
\* released the lock, and at `await t.lock.acquire()` it has not got it yet
Unwound(pc) ==
    IF pc \in {"yielded", "waitlock"} THEN "released_unheld" ELSE "cancelled"

\* a user interruption while a translator call is in progress: neither
\* `except Exception` catches it (KeyboardInterrupt and CancelledError are
\* BaseException), main is cancelled and asyncio.run ends the process: what
\* it held in memory is gone, the store and the log remain
Interrupt ==
    /\ Running
    /\ \E t \in Tasks : \E e \in DOMAIN aiotasks[t] : InChain(aiotasks[t][e])
    /\ mainpc' = "cancelled"
    /\ aiotasks' = [t \in Tasks |-> << >>]
    /\ book' = [t \in Tasks |-> << >>]
    /\ ready' = << >>
    /\ lock' = [t \in Tasks |-> [locked |-> FALSE, waiters |-> << >>]]
    /\ crawlpc' = [t \in Tasks |-> Unwound(crawlpc[t])]
    /\ UNCHANGED <<notpipe, chain, store, log, exported>>

\* the export stage: every task whose book is in the store
Export ==
    /\ mainpc = "export"
    /\ exported' = {t \in Tasks : store[t] # << >>}
    /\ mainpc' = "close"
    /\ UNCHANGED <<notpipe, chain, crawlpc, lock, book, store, ready, aiotasks, log>>

\* await db.close(); return 0
Close ==
    /\ mainpc = "close"
    /\ mainpc' = "done"
    /\ UNCHANGED <<notpipe, chain, crawlpc, lock, book, store, ready, aiotasks, log, exported>>

Next ==
    \/ \E t \in Tasks : CrawlStart(t)
    \/ \E t \in Tasks : CrawlEpisode(t)
    \/ \E t \in Tasks : CrawlFail(t)
    \/ \E t \in Tasks : CrawlFinish(t)
    \/ \E t \in Tasks : CrawlResume(t)
    \/ \E t \in Tasks : CrawlWake(t)
    \/ \E t \in Tasks : \E e \in 1..NumEpisodes : TrStart(t, e)
    \/ \E t \in Tasks : \E e \in 1..NumEpisodes : TrWake(t, e)
    \/ \E t \in Tasks : \E e \in 1..NumEpisodes : TrBatchOk(t, e)
    \/ \E t \in Tasks : \E e \in 1..NumEpisodes : TrBatchFatal(t, e)
    \/ \E t \in Tasks : \E e \in 1..NumEpisodes : TrUpsertOk(t, e)
    \/ \E t \in Tasks : \E e \in 1..NumEpisodes : TrUpsertFail(t, e)
    \/ MainPull
    \/ MainCrawlFailed
    \/ MainSelectEnd
    \/ GatherDone
    \/ GatherRaise
    \/ Interrupt
    \/ Export
    \/ Close

Spec == Init /\ [][Next]_vars

(***************************************************************************)
(* One translator.translate call (SpecCall): GPTTranslator,                *)
(* GeminiTranslator and DeepLTranslator on one episode.  Every action is   *)
(* the code between two awaits of the call; the backend's answer is the    *)
(* input of the action that follows the await.                             *)
(***************************************************************************)
\* most lines an episode has
MaxLines == 2
\* largest max_retries explored
MaxRetries == 1
\* the batch_size values explored, in characters
BatchSizes == {1, 2}
\* max_retries = None, written as an integer below every count
Unlimited == 0 - 1


\* the translators called: class, skip_translated, max_retries, batch_size;
\* self.name is written as the class
Configs ==
    {[kind |-> k, skip |-> s, maxr |-> m, bsize |-> b] :
        k \in {"gpt", "gemini"}, s \in BOOLEAN,
        m \in Unlimited..MaxRetries, b \in BatchSizes}
    \cup {[kind |-> "deepl", skip |-> s, maxr |-> Unlimited, bsize |-> 1] :
            s \in BOOLEAN}

\* a line as an earlier translator of the chain left it
Translated(content) ==
    [content |-> content, translated |-> "old",
     candidates |-> [n \in {"other"} |-> "old"]]

\* the lines an episode is made of: whitespace only, one or two characters,
\* untouched or translated before
LineStates ==
    {Line(<<" ">>), Line(<<"a">>), Line(<<"a", "a">>), Translated(<<"a">>)}

EpisodeLines == UNION {[1..n -> LineStates] : n \in 0..MaxLines}

\* Book: title_translated, description_translated, series_translated of a book
\* that has a title, a description and a series; present = the book argument
\* is not None
BookMeta(present, t, d, s) ==
    [present |-> present, title_translated |-> t,
     description_translated |-> d, series_translated |-> s]

\* Chapter: title_translated; present = the chapter argument is not None
ChapterMeta(present, t) == [present |-> present, title_translated |-> t]

\* the metadata the call finds: no book and no chapter; nothing translated;
\* everything translated before; only the book title and the chapter title
Scenarios ==
    {[book |-> BookMeta(FALSE, None, None, None),
      chapter |-> ChapterMeta(FALSE, None), title |-> None, notes |-> None],
     [book |-> BookMeta(TRUE, None, None, None),
      chapter |-> ChapterMeta(TRUE, None), title |-> None, notes |-> None],
     [book |-> BookMeta(TRUE, "old", "old", "old"),
      chapter |-> ChapterMeta(TRUE, "old"), title |-> "old", notes |-> "old"],
     [book |-> BookMeta(TRUE, "old", None, None),
      chapter |-> ChapterMeta(TRUE, "old"), title |-> None, notes |-> None]}

\* text of the k-th non-empty line of a response
Tokens == <<"t1", "t2", "t3", "t4", "t5", "t6">>

\* not v.strip()
IsBlankValue(v) == v = " "

InitCall ==
    /\ PipeIdle
    /\ StoreIdle
    /\ ExportIdle
    /\ CrawlIdle
    /\ TextIdle
    /\ SessionIdle
    /\ ScopeIdle
    /\ TreeIdle
    /\ PromptIdle
    /\ GlossaryIdle
    /\ cfg \in Configs
    /\ \E l \in EpisodeLines : \E m \in Scenarios :
        /\ epi = [lines |-> l, title_translated |-> m.title,
                  notes_translated |-> m.notes]
        /\ bookm = m.book
        /\ chapm = m.chapter
        /\ pre0 = l
    /\ cpc = "begin"
    /\ req = Nothing
    /\ retry = 0
    /\ o_bound = FALSE
    /\ upserts = << >>
    /\ err = None
    /\ tries = 0
    /\ waits = 0
    /\ batches = << >>
    /\ answers = << >>
    /\ lastresp = NoResponse
    /\ extra = {}

\* a keyed payload c (book_meta, chapter_meta, episode_meta) at the entry of
\* the inner translate(c)
KeyReq(phase, keys) ==
    [kind |-> "keys", phase |-> phase, keys |-> keys, fresh |-> TRUE]

\* a line batch c (contents) at the entry of the inner translate(c); s is the
\* state of the line loop at the flush
LineReq(s) ==
    [kind |-> "lines", phase |-> "lines", indexes |-> s.indexes,
     next |-> s.next, final |-> s.final, fresh |-> TRUE]

\* AfterLines without the upsert
AfterLinesNoUpsert == [cpc |-> "done", req |-> Nothing]

\* after the line loop and the final flush: the upsert, if there is a book
AfterLines ==
    [cpc |-> IF bookm.present THEN "upsert" ELSE "done", req |-> Nothing]

\* the line loop from line i on: the next flush, or the end
LinesFrom(lines, i) ==
    LET s == ScanBatch(lines, i, << >>, 0, cfg.skip, cfg.bsize)
    IN  IF s.indexes = << >> THEN AfterLines
        ELSE [cpc |-> "send", req |-> LineReq(s)]

\* episode_meta = await translate(episode_meta)
AfterChapter == [cpc |-> "send", req |-> KeyReq("episode", {"title", "notes"})]

\* if chapter is not None and chapter.title_translated is None
AfterBook ==
    IF chapm.present /\ chapm.title_translated = None
    THEN [cpc |-> "send", req |-> KeyReq("chapter", {"title"})]
    ELSE AfterChapter

\* if book is not None and None in (title_translated, description_translated,
\* series_translated)
AfterStart ==
    IF /\ bookm.present
       /\ None \in {bookm.title_translated, bookm.description_translated,
                    bookm.series_translated}
    THEN [cpc |-> "send",
          req |-> KeyReq("book", {"title", "description", "series"})]
    ELSE AfterBook

\* what the backend may answer to a keyed payload: text that json.loads
\* rejects, JSON that is not an object, an object with the keys K
KeyResponses(keys) ==
    {[kind |-> "unparsable"], [kind |-> "notdict"]}
    \cup {[kind |-> "dict", keys |-> K] :
            K \in {keys, keys \ {"title"}, keys \cup {"extra"}}}

\* what the backend may answer to a batch of n lines: up to n + 1 non-empty
\* lines, each whitespace only (blank) or text, and empty lines among them;
\* resp.split gives at least one line
LineResponses(n) ==
    {r \in [kind : {"lines"},
            blank : UNION {[1..m -> BOOLEAN] : m \in 0..(n + 1)},
            empties : 0..1] : Len(r.blank) + r.empties >= 1}

\* the answers to the payload c, and sess.send / sess.stream raising
Responses(c) ==
    {[kind |-> "error"]}
    \cup (IF c.kind = "keys" THEN KeyResponses(c.keys)
          ELSE LineResponses(Len(c.indexes)))

\* len(resp.split('\n'))
RawCount(resp) ==
    IF resp.kind = "lines" THEN Len(resp.blank) + resp.empties ELSE 0

\* obj = list(filter(None, map(..., resp.split('\n')))): the empty lines are
\* dropped, the others keep their order
Obj(resp) ==
    [k \in 1..Len(resp.blank) |-> IF resp.blank[k] THEN " " ELSE Tokens[k]]

\* SameLength that lets a longer response pass
SameLengthOrLonger(obj, c) == Len(obj) >= Len(c)

\* len(obj) != len(c), written as its negation
SameLength(obj, c) == Len(obj) = Len(c)

\* the try body reaches `return obj`
Accepts(c, resp) ==
    IF c.kind = "lines"
    THEN resp.kind = "lines" /\ SameLength(Obj(resp), c.indexes)
    ELSE resp.kind = "dict" /\ resp.keys = c.keys

\* Exceeded with retry >= max_retries
ExceededEarly(r, max_retries) == max_retries # Unlimited /\ r >= max_retries

\* self.max_retries is not None and retry > self.max_retries
Exceeded(r, max_retries) == max_retries # Unlimited /\ r > max_retries

\* what is recorded of the response to the payload c: its kind, its number of
\* lines (n) and of non-empty lines (m), its keys, len(c) and c.keys(), and
\* whether obj was returned
Received(c, resp, ok) ==
    [kind |-> resp.kind, n |-> RawCount(resp),
     m |-> IF resp.kind = "lines" THEN Len(resp.blank) ELSE 0,
     keys |-> IF resp.kind = "dict" THEN resp.keys ELSE {},
     cn |-> IF c.kind = "lines" THEN Len(c.indexes) ELSE 0,
     ckeys |-> IF c.kind = "keys" THEN c.keys ELSE {},
     ok |-> ok]

\* position of the first whitespace-only value, 0 if there is none
FirstBlank(obj) ==
    IF \E p \in 1..Len(obj) : IsBlankValue(obj[p])
    THEN CHOOSE p \in 1..Len(obj) :
            /\ IsBlankValue(obj[p])
            /\ \A q \in 1..(p - 1) : ~IsBlankValue(obj[q])
    ELSE 0

\* CallBegin with the session registered before the early return
CallBeginSessionFirst ==
    /\ cpc = "begin"
    /\ cfg.kind \in {"gpt", "gemini"}
    /\ extra' = extra \cup {cfg.kind}
    /\ IF fully_translated(epi.lines) /\ cfg.skip
       THEN cpc' = "done" /\ req' = req
       ELSE cpc' = AfterStart.cpc /\ req' = AfterStart.req
    /\ UNCHANGED <<notcall, cfg, epi, bookm, chapm, retry, o_bound, upserts, err,
                   tries, waits, pre0, batches, answers, lastresp>>

\* translate of GPTTranslator / GeminiTranslator up to the first await: the
\* early return, or the session of the task is fetched or made and kept in
\* task.extra under self.name
CallBegin ==
    /\ cpc = "begin"
    /\ cfg.kind \in {"gpt", "gemini"}
    /\ IF fully_translated(epi.lines) /\ cfg.skip
       THEN cpc' = "done" /\ req' = req /\ extra' = extra
       ELSE /\ cpc' = AfterStart.cpc /\ req' = AfterStart.req
            /\ extra' = extra \cup {cfg.kind}
    /\ UNCHANGED <<notcall, cfg, epi, bookm, chapm, retry, o_bound, upserts, err,
                   tries, waits, pre0, batches, answers, lastresp>>

\* the statements that follow `... = await translate(c)` once obj is
\* returned, up to the next await: the values are stored, and the call goes on
\* to its next payload
Accepted(resp) ==
    LET same == [epi |-> epi, bookm |-> bookm, chapm |-> chapm,
                 o_bound |-> o_bound, err |-> err, cpc |-> cpc, req |-> req]
    IN  CASE req.phase = "book" ->
                [same EXCEPT !.bookm = BookMeta(TRUE, "new", "new", "new"),
                             !.cpc = AfterBook.cpc, !.req = AfterBook.req]
          [] req.phase = "chapter" ->
                [same EXCEPT !.chapm = ChapterMeta(TRUE, "new"),
                             !.cpc = AfterChapter.cpc, !.req = AfterChapter.req]
          [] req.phase = "episode" ->
                LET n == LinesFrom(epi.lines, 1)
                IN  [same EXCEPT !.epi.title_translated = "new",
                                 !.epi.notes_translated = "new",
                                 !.cpc = n.cpc, !.req = n.req]
          [] req.phase = "lines" ->
                LET obj == Obj(resp)
                    p == FirstBlank(obj)
                    \* gemini, final flush: the warning names o, a local that
                    \* only the flush inside the loop assigns
                    unbound == /\ cfg.kind = "gemini" /\ req.final
                               /\ ~o_bound /\ p > 0
                    lines2 ==
                        IF unbound
                        THEN ApplyFirst(epi.lines, req.indexes, obj, cfg.kind, p)
                        ELSE ApplyBatch(epi.lines, req.indexes, obj, cfg.kind)
                    n == IF req.final THEN AfterLines
                         ELSE LinesFrom(lines2, req.next)
                IN  [same EXCEPT
                        !.epi.lines = lines2,
                        !.o_bound = o_bound \/ (cfg.kind = "gemini" /\ ~req.final),
                        !.err = IF unbound THEN "UnboundLocalError" ELSE err,
                        !.cpc = IF unbound THEN "raised" ELSE n.cpc,
                        !.req = IF unbound THEN [req EXCEPT !.fresh = FALSE]
                                ELSE n.req]

\* one pass of `while True` of the inner translate(c): the payload is sent,
\* the response is validated, and either obj is returned and stored or the
\* except branch runs up to its raise or its sleep
Attempt ==
    /\ cpc = "send"
    /\ LET first == req.fresh
           t == IF first THEN 1 ELSE tries + 1
       IN  /\ t <= MaxRetries + 2
           /\ tries' = t
           /\ waits' = (IF first THEN 0 ELSE waits)
           /\ batches' = (IF first /\ req.kind = "lines"
                          THEN Append(batches, req.indexes) ELSE batches)
           /\ \E resp \in Responses(req) :
                /\ lastresp' = Received(req, resp, Accepts(req, resp))
                /\ IF Accepts(req, resp)
                   THEN LET a == Accepted(resp)
                        IN  /\ epi' = a.epi
                            /\ bookm' = a.bookm
                            /\ chapm' = a.chapm
                            /\ o_bound' = a.o_bound
                            /\ err' = a.err
                            /\ cpc' = a.cpc
                            /\ req' = a.req
                            /\ retry' = 0
                            /\ answers' = (IF req.kind = "lines"
                                           THEN Append(answers, Obj(resp))
                                           ELSE answers)
                   ELSE /\ retry' = retry + 1
                        /\ IF Exceeded(retry + 1, cfg.maxr)
                           THEN cpc' = "raised" /\ err' = "RuntimeError"
                           ELSE cpc' = "sleep" /\ err' = err
                        /\ req' = [req EXCEPT !.fresh = FALSE]
                        /\ UNCHANGED <<epi, bookm, chapm, o_bound, answers>>
    /\ UNCHANGED <<notcall, extra, cfg, upserts, pre0>>

\* ContentBlockedError handled as any Exception: retry += 1, sleep, continue
GeminiBlockedRetried ==
    /\ cpc = "send"
    /\ cfg.kind = "gemini"
    /\ tries < MaxRetries + 2
    /\ tries' = (IF req.fresh THEN 1 ELSE tries + 1)
    /\ waits' = (IF req.fresh THEN 0 ELSE waits)
    /\ batches' = (IF req.fresh /\ req.kind = "lines"
                   THEN Append(batches, req.indexes) ELSE batches)
    /\ lastresp' = [NoResponse EXCEPT !.kind = "blocked"]
    /\ req' = [req EXCEPT !.fresh = FALSE]
    /\ retry' = retry + 1
    /\ cpc' = "sleep"
    /\ UNCHANGED <<notcall, extra, cfg, epi, bookm, chapm, o_bound, upserts,
                   pre0, answers, err>>
\* gemini: except ContentBlockedError: raise
GeminiBlocked ==
    /\ cpc = "send"
    /\ cfg.kind = "gemini"
    /\ LET first == req.fresh
           t == IF first THEN 1 ELSE tries + 1
       IN  /\ t <= MaxRetries + 2
           /\ tries' = t
           /\ waits' = (IF first THEN 0 ELSE waits)
           /\ batches' = (IF first /\ req.kind = "lines"
                          THEN Append(batches, req.indexes) ELSE batches)
    /\ lastresp' = [NoResponse EXCEPT !.kind = "blocked"]
    /\ req' = [req EXCEPT !.fresh = FALSE]
    /\ cpc' = "raised"
    /\ err' = "ContentBlockedError"
    /\ UNCHANGED <<notcall, extra, cfg, epi, bookm, chapm, retry, o_bound, upserts, pre0,
                   answers>>

\* await asyncio.sleep(1); continue
Backoff ==
    /\ cpc = "sleep"
    /\ waits' = waits + 1
    /\ cpc' = "send"
    /\ UNCHANGED <<notcall, extra, cfg, epi, bookm, chapm, req, retry, o_bound, upserts,
                   err, tries, pre0, batches, answers, lastresp>>

\* book.model_dump(mode="json"): the book as it stands, with its chapter and
\* the episode of the call in it
Snapshot == [book |-> bookm, chapter |-> chapm, episode |-> epi]

\* await db.upsert(book.model_dump(...), ...); return episode
Upsert ==
    /\ cpc = "upsert"
    /\ upserts' = Append(upserts, Snapshot)
    /\ cpc' = "done"
    /\ UNCHANGED <<notcall, extra, cfg, epi, bookm, chapm, req, retry, o_bound, err,
                   tries, waits, pre0, batches, answers, lastresp>>

\* db.upsert raises
UpsertFail ==
    /\ cpc = "upsert"
    /\ cpc' = "raised"
    /\ err' = "StoreError"
    /\ UNCHANGED <<notcall, extra, cfg, epi, bookm, chapm, req, retry, o_bound, upserts,
                   tries, waits, pre0, batches, answers, lastresp>>

RECURSIVE PendingFrom(_, _, _)
\* DeepLTranslator: the indexes collected by the loop over episode.lines
PendingFrom(lines, i, skip_translated) ==
    IF i > Len(lines) THEN << >>
    ELSE IF IsPending(lines[i], skip_translated)
    THEN <<i>> \o PendingFrom(lines, i + 1, skip_translated)
    ELSE PendingFrom(lines, i + 1, skip_translated)

\* translate of DeepLTranslator up to the first await (no glossary)
DeepLBegin ==
    /\ cpc = "begin"
    /\ cfg.kind = "deepl"
    /\ LET indexes == PendingFrom(epi.lines, 1, cfg.skip)
       IN  IF indexes = << >>
           THEN cpc' = "done" /\ req' = req
           ELSE /\ cpc' = "deepl_meta"
                /\ req' = LineReq([indexes |-> indexes,
                                   next |-> Len(epi.lines) + 1, final |-> TRUE])
    /\ UNCHANGED <<notcall, extra, cfg, epi, bookm, chapm, retry, o_bound, upserts, err,
                   tries, waits, pre0, batches, answers, lastresp>>

\* x_translated is None or not self.skip_translated
DeepLSends(old) == old = None \/ ~cfg.skip

\* the metadata requests of DeepLTranslator, every field non-empty
DeepLMeta ==
    /\ cpc = "deepl_meta"
    /\ bookm' = (IF bookm.present
                 THEN [f \in DOMAIN bookm |->
                        IF f # "present" /\ DeepLSends(bookm[f])
                        THEN "new" ELSE bookm[f]]
                 ELSE bookm)
    /\ chapm' = (IF chapm.present /\ DeepLSends(chapm.title_translated)
                 THEN ChapterMeta(TRUE, "new") ELSE chapm)
    /\ epi' = [epi EXCEPT
                !.title_translated = IF DeepLSends(@) THEN "new" ELSE @,
                !.notes_translated = IF DeepLSends(@) THEN "new" ELSE @]
    /\ cpc' = "deepl_lines"
    /\ UNCHANGED <<notcall, extra, cfg, req, retry, o_bound, upserts, err, tries, waits,
                   pre0, batches, answers, lastresp>>

\* translated = await translate(contents) and the loop that stores it; the
\* backend returns one result per text
DeepLLines ==
    /\ cpc = "deepl_lines"
    /\ \E blank \in [1..Len(req.indexes) -> BOOLEAN] :
        LET resp == [kind |-> "lines", blank |-> blank, empties |-> 0]
        IN  /\ epi' = [epi EXCEPT !.lines =
                        ApplyBatch(@, req.indexes, Obj(resp), cfg.kind)]
            /\ answers' = Append(answers, Obj(resp))
            /\ lastresp' = Received(req, resp, TRUE)
    /\ batches' = Append(batches, req.indexes)
    /\ tries' = 1
    /\ cpc' = AfterLines.cpc
    /\ req' = [req EXCEPT !.fresh = FALSE]
    /\ UNCHANGED <<notcall, extra, cfg, bookm, chapm, retry, o_bound, upserts, err,
                   waits, pre0>>

\* a request of DeepLTranslator raises: nothing catches it in translate
DeepLFail ==
    /\ cpc \in {"deepl_meta", "deepl_lines"}
    /\ cpc' = "raised"
    /\ err' = "BackendError"
    /\ UNCHANGED <<notcall, extra, cfg, epi, bookm, chapm, req, retry, o_bound, upserts,
                   tries, waits, pre0, batches, answers, lastresp>>

NextCall ==
    \/ CallBegin
    \/ Attempt
    \/ GeminiBlocked
    \/ Backoff
    \/ Upsert
    \/ UpsertFail
    \/ DeepLBegin
    \/ DeepLMeta
    \/ DeepLLines
    \/ DeepLFail

SpecCall == InitCall /\ [][NextCall]_vars

(***************************************************************************)
(* Properties of one translate call (SpecCall).                            *)
(***************************************************************************)
\* the call returned episode
Returned == cpc = "done"

\* C5 as stated: after a translate call that returns, every non-blank line has
\* translated non-null and candidates[name of the translator called] equal to
\* translated
C5_EveryLineHasCandidate ==
    Returned =>
        \A i \in 1..Len(epi.lines) :
            ~IsBlank(epi.lines[i].content) =>
                /\ epi.lines[i].translated # None
                /\ cfg.kind \in DOMAIN epi.lines[i].candidates
                /\ epi.lines[i].candidates[cfg.kind] = epi.lines[i].translated

\* C5 amended: after a translate call that returns, every non-blank line has
\* translated non-null; a line that was translated before the call is left as
\* it was when skip_translated is set, and every other non-blank line has
\* candidates[name of the translator called] equal to translated
C5_TranslatedOrKept ==
    Returned =>
        \A i \in 1..Len(epi.lines) :
            ~IsBlank(epi.lines[i].content) =>
                /\ epi.lines[i].translated # None
                /\ IF cfg.skip /\ pre0[i].translated # None
                   THEN epi.lines[i] = pre0[i]
                   ELSE /\ cfg.kind \in DOMAIN epi.lines[i].candidates
                        /\ epi.lines[i].candidates[cfg.kind]
                            = epi.lines[i].translated

\* C5 witness: a call with skip_translated returned after translating one
\* line and keeping another that was translated before
C5_Witness ==
    /\ Returned
    /\ cfg.skip
    /\ \E i, j \in 1..Len(epi.lines) :
        /\ pre0[i].translated = None
        /\ epi.lines[i].translated # None
        /\ pre0[j].translated # None
        /\ epi.lines[j] = pre0[j]

\* the response has the request's shape, counting every response line
RawShape(r) ==
    \/ r.kind = "lines" /\ r.n = r.cn
    \/ r.kind = "dict" /\ r.keys = r.ckeys

\* the response has the request's shape, counting the non-empty response lines
Shape(r) ==
    \/ r.kind = "lines" /\ r.m = r.cn
    \/ r.kind = "dict" /\ r.keys = r.ckeys

\* a response that was not accepted is applied to nothing and the payload is
\* retried (after the wait) or the retry bound raises
NotApplied ==
    /\ epi' = epi /\ bookm' = bookm /\ chapm' = chapm
    /\ cpc' \in {"sleep", "raised"}
    /\ answers' = answers

Sent(b, k) == batches[b][k]

\* the lines pending when the call began
PendingAtCall ==
    {i \in 1..Len(pre0) :
        ~IsBlank(pre0[i].content) /\ ~(cfg.skip /\ pre0[i].translated # None)}

\* C7: in GPTTranslator and GeminiTranslator the pending lines are sent in
\* episode order, each in one batch only; the k-th element of an accepted
\* response is stored on the k-th line of its batch; and after the last
\* batch every pending line was sent and fully_translated is true
C7_BatchesInOrder ==
    cfg.kind \in {"gpt", "gemini"} =>
        /\ \A b \in 1..Len(batches) : \A k \in 1..Len(batches[b]) :
            /\ Sent(b, k) \in PendingAtCall
            /\ \A c \in 1..Len(batches) : \A j \in 1..Len(batches[c]) :
                (b < c \/ (b = c /\ k < j)) => Sent(b, k) < Sent(c, j)
        /\ \A b \in 1..Len(answers) : \A k \in 1..Len(batches[b]) :
            epi.lines[Sent(b, k)].translated = answers[b][k]
        /\ cpc \in {"upsert", "done"} =>
            /\ \A i \in PendingAtCall :
                \E b \in 1..Len(batches) : \E k \in 1..Len(batches[b]) :
                    Sent(b, k) = i
            /\ fully_translated(epi.lines)

\* the translator retries a bounded number of times
Bounded == cfg.kind \in {"gpt", "gemini"} /\ cfg.maxr # Unlimited

\* C8: with max_retries = n a payload is never sent more than n + 1 times, a
\* wait precedes every attempt but the first, RuntimeError is raised exactly
\* when attempt n + 1 fails validation, and a payload whose attempt is valid
\* is returned at that attempt
C8_RetryBounded ==
    Bounded =>
        /\ tries <= cfg.maxr + 1
        /\ waits = (IF cpc = "send" /\ ~req.fresh /\ tries > 0
                    THEN tries ELSE IF tries = 0 THEN 0 ELSE tries - 1)
        /\ err = "RuntimeError" =>
            tries = cfg.maxr + 1 /\ waits = cfg.maxr /\ ~lastresp.ok
        /\ (tries = cfg.maxr + 1 /\ ~lastresp.ok /\ lastresp.kind # "blocked")
            => err = "RuntimeError" /\ cpc = "raised"
        /\ lastresp.ok => cpc # "sleep" /\ (cpc = "send" => req.fresh)

\* C8 witness: with the largest max_retries, every attempt of a payload has
\* failed validation and RuntimeError was raised
C8_Witness ==
    /\ Bounded
    /\ cfg.maxr = MaxRetries
    /\ err = "RuntimeError"
    /\ tries = MaxRetries + 1
    /\ waits = MaxRetries

\* the call finds nothing to translate and returns before any request:
\* `if episode.fully_translated and self.skip_translated` (gpt, gemini),
\* `if not indexes` (deepl)
NothingPending ==
    IF cfg.kind = "deepl"
    THEN PendingFrom(pre0, 1, cfg.skip) = << >>
    ELSE fully_translated(pre0) /\ cfg.skip

RECURSIVE NonBlank(_)
\* the lines that are not whitespace only, in order
NonBlank(lines) ==
    IF lines = << >> THEN << >>
    ELSE IF IsBlank(Head(lines).content) THEN NonBlank(Tail(lines))
    ELSE <<Head(lines)>> \o NonBlank(Tail(lines))

\* the positions of the lines the call has put in a payload so far, the
\* payload about to be sent included
Requested ==
    UNION {{batches[b][k] : k \in DOMAIN batches[b]} : b \in DOMAIN batches}
    \cup (IF req # Nothing /\ req.kind = "lines"
          THEN {req.indexes[k] : k \in DOMAIN req.indexes} ELSE {})

\* C16: a line that is whitespace only, and with skip_translated a line that
\* had a translation when the call began, is in no payload and is at every
\* moment as the call found it; an episode is fully translated iff its lines
\* that are not whitespace only all have a translation
C16_BlankAndTranslatedLinesUntouched ==
    /\ \A i \in DOMAIN pre0 :
          \/ \A k \in DOMAIN pre0[i].content : pre0[i].content[k] = " "
          \/ cfg.skip /\ pre0[i].translated # None
          => i \notin Requested /\ epi.lines[i] = pre0[i]
    /\ fully_translated(epi.lines)
          <=> \A k \in DOMAIN NonBlank(epi.lines) :
                  NonBlank(epi.lines)[k].translated # None

\* a call has returned from an episode made of a whitespace-only line and a
\* line that it translated
C16_Witness ==
    /\ Returned
    /\ \E i, j \in DOMAIN pre0 :
          /\ pre0[i].content = <<" ">>
          /\ epi.lines[j].translated \notin {None, "old"}

\* the call is at the test of line 52 with a fully translated episode and
\* skip_translated
AtEarlyReturn ==
    /\ cpc = "begin" /\ cfg.kind \in {"gpt", "gemini"}
    /\ fully_translated(epi.lines) /\ cfg.skip

\* C17: from a fully translated episode with skip_translated, translate of
\* GPTTranslator and GeminiTranslator returns at once and leaves the episode,
\* the chapter, the book, task.extra, the requests made and the store as
\* they were
C17_FullyTranslatedIsNoOp ==
    [][AtEarlyReturn =>
        /\ cpc' = "done"
        /\ UNCHANGED <<epi, bookm, chapm, extra, req, tries, batches, answers,
                       lastresp, upserts, svars>>]_vars

\* a call with a book has returned without a request from an episode of two
\* lines, each whitespace only or translated before, one at least translated
C17_Witness ==
    /\ Returned /\ cfg.kind \in {"gpt", "gemini"} /\ cfg.skip
    /\ bookm.present /\ bookm.title_translated = None
    /\ Len(pre0) = 2 /\ fully_translated(pre0)
    /\ \E i \in DOMAIN pre0 : pre0[i].translated = "old"
    /\ tries = 0

\* the translated metadata the call can reach, field by field
MetaValue ==
    [book_title |-> bookm.title_translated,
     book_description |-> bookm.description_translated,
     book_series |-> bookm.series_translated,
     chapter_title |-> chapm.title_translated,
     episode_title |-> epi.title_translated,
     episode_notes |-> epi.notes_translated]

\* the metadata fields whose source text the payload r carries
FieldsOf(r) ==
    IF r.kind # "keys" THEN {}
    ELSE CASE r.phase = "book" ->
                {"book_title", "book_description", "book_series"}
           [] r.phase = "chapter" -> {"chapter_title"}
           [] r.phase = "episode" -> {"episode_title", "episode_notes"}

\* C15: in a call of GPTTranslator or GeminiTranslator, a metadata field whose
\* translated value is populated keeps that value at every step, and no
\* payload that carries the field is about to be sent
C15_MetadataTranslatedOnce ==
    [][cfg.kind \in {"gpt", "gemini"} =>
        \A f \in DOMAIN MetaValue :
            MetaValue[f] # None =>
                /\ MetaValue'[f] = MetaValue[f]
                /\ cpc' = "send" => f \notin FieldsOf(req')]_vars

(***************************************************************************)
(* Properties of the pipeline (Spec).                                      *)
(***************************************************************************)
\* the acquisition step of task t is in progress: crawl_stream has been
\* resumed and has not yet yielded or ended
AcquisitionStep(t) == crawlpc[t] = "crawling"

\* the translation steps of task t that are in progress
TranslationSteps(t) == {e \in DOMAIN aiotasks[t] : InChain(aiotasks[t][e])}

\* C1: for every task, the acquisition step and a translation step are never
\* in progress together, two translation steps are never in progress
\* together, and while a translation step is in progress (from its first to
\* its last translator) the crawl has added no episode to the task's book.
C1_TaskLockExcludes ==
    \A t \in Tasks :
        /\ AcquisitionStep(t) => TranslationSteps(t) = {}
        /\ Cardinality(TranslationSteps(t)) <= 1
        /\ \A e \in TranslationSteps(t) : aiotasks[t][e].seen = Len(book[t])

\* C1 witness: the second translator of a chain is at work on one episode
\* while the crawl wrapper and the translation of the next episode of the
\* same task wait for the lock.
C1_Witness ==
    \E t \in Tasks :
        /\ crawlpc[t] = "waitlock"
        /\ \E e \in DOMAIN aiotasks[t] : InChain(aiotasks[t][e]) /\ aiotasks[t][e].k = 2
        /\ \E e \in DOMAIN aiotasks[t] : aiotasks[t][e].pc = "waitlock"

\* C2: no failure that arises while processing one task stops the run: main
\* never ends by an exception raised by a task.
C2_NoTaskFailureStopsRun == mainpc # "raised"

\* C3: when a source has failed, its failure is logged, the fan-in loop ends
\* only with every source exhausted, and by the end of the run every
\* translation step scheduled for an episode the failed source yielded has
\* run (none was cancelled or left waiting).
C3_FailedSourceIsolated ==
    mainpc \in {"raised", "export", "close", "done"} =>
        \A t \in Tasks : crawlpc[t] = "failed" =>
            /\ LogEntry("crawl", t, 0, 0, "critical") \in log
            /\ \A u \in Tasks : crawlpc[u] \in {"done", "failed"}
            /\ \A e \in DOMAIN aiotasks[t] : aiotasks[t][e].pc \in {"done", "failed"}

\* C4: a user interruption during a translator call never ends the run: main
\* is never cancelled by it.
C4_InterruptIsSkipped == mainpc # "cancelled"

\* translator k's call of the translation task (t, e) ends in this step while
\* a line batch is pending: the call has raised
FatalStep(t, e) ==
    /\ At(t, e, "lines")
    /\ e \in DOMAIN aiotasks'[t]
    /\ \/ aiotasks'[t][e].pc = "done"
       \/ aiotasks'[t][e].pc = "lines" /\ aiotasks'[t][e].k > aiotasks[t][e].k

\* C9: when a batch of an episode fails fatally, the lines of the batches
\* applied before it keep the translated and candidates values the call gave
\* them, every other line is as it was before the call, the failure is logged
\* and the caller goes on: to the next translator of the chain when there is
\* one, else translate returns normally and releases the lock; no other
\* translation task and no source is touched.
C9_FatalBatchStep ==
    \A t \in Tasks : \A e \in 1..NumEpisodes :
        FatalStep(t, e) =>
            LET x == aiotasks[t][e]
                name == chain[t][x.k]
                lines == book'[t][x.ep]
            IN  /\ \A j \in 1..Len(lines) :
                       IF j \in x.applied
                       THEN /\ lines[j].translated = name
                            /\ name \in DOMAIN lines[j].candidates
                            /\ lines[j].candidates[name] = name
                            /\ lines[j].content = x.pre[j].content
                       ELSE lines[j] = x.pre[j]
                /\ \E entry \in log' \ log :
                       entry.kind = "translate" /\ entry.task = t
                           /\ entry.ep = x.ep /\ entry.k = x.k
                /\ IF x.k < Len(chain[t])
                   THEN /\ InChain(aiotasks'[t][e])
                        /\ aiotasks'[t][e].k = x.k + 1
                        /\ lock'[t] = lock[t]
                   ELSE /\ aiotasks'[t][e].pc = "done"
                        /\ ~lock'[t].locked
                /\ \A u \in Tasks : \A d \in DOMAIN aiotasks[u] :
                       <<u, d>> # <<t, e>> => aiotasks'[u][d] = aiotasks[u][d]
                /\ UNCHANGED <<crawlpc, mainpc, store, ready>>

\* C9: every step in which a batch fails fatally keeps the lines of the
\* earlier batches as applied, leaves every other line as before the call, is
\* logged, and lets the caller go on
C9_FatalBatchKeepsEarlier == [][C9_FatalBatchStep]_vars

\* C9 witness: the first translator has failed on the second batch of an
\* episode after its first batch was applied, and the second translator is
\* at work on that episode.
C9_Witness ==
    \E t \in Tasks : \E e \in DOMAIN aiotasks[t] :
        /\ InChain(aiotasks[t][e])
        /\ aiotasks[t][e].k = 2
        /\ aiotasks[t][e].pre[1].translated = chain[t][1]
        /\ aiotasks[t][e].pre[3].translated = None
        /\ \E entry \in log : entry.task = t /\ entry.ep = e /\ entry.k = 1

\* the translation of every line of the in-memory book is in the stored
\* record
StoredAll(t) ==
    \A e \in DOMAIN book[t] : \A j \in DOMAIN book[t][e] :
        book[t][e][j].translated # None =>
            /\ store[t] # << >>
            /\ e \in DOMAIN store[t][1]
            /\ store[t][1][e][j].translated = book[t][e][j].translated

\* C10: by the end of the run (every source exhausted, every translation step
\* finished) the translations applied to lines are in the stored record.
C10_PartialWorkStored ==
    mainpc \in {"export", "close", "done"} => \A t \in Tasks : StoredAll(t)

(***************************************************************************)
(* db.upsert as the crawlers and the translators issue it (SpecStore).     *)
(* asynctinydb's upsert(document, cond) updates every document that cond   *)
(* matches with the fields of document, and inserts document when cond     *)
(* matches none.                                                           *)
(***************************************************************************)
\* most documents the store holds
MaxDocs == 3
\* a book's snapshots are numbered 0..MaxRev
MaxRev == 1

\* titles and authors of the books crawled
Titles == {"T1", "T2"}
Authors == {"A1", "A2"}

\* book.model_dump(mode="json"): the title, the author, and the rest of the
\* tree as a snapshot number
Snapshots == [title : Titles, author : Authors, rev : 0..MaxRev]

\* q.title == book.title, as the set of fields the query compares
TitleIs == {"title"}
\* q.author == book.author
AuthorIs == {"author"}

\* a & b on two queries: both must hold
QAnd(a, b) == a \cup b

\* Python's `a and b` on two query objects: a query object defines neither
\* __bool__ nor __len__, so a is true and the value of the expression is b
PyAnd(a, b) == b

\* the query q, built for book b, matches doc
Matches(q, doc, b) == \A f \in q : doc[f] = b[f]

\* db.upsert(b, q)
upsert(docs, b, q) ==
    IF \E i \in DOMAIN docs : Matches(q, docs[i], b)
    THEN [i \in DOMAIN docs |-> IF Matches(q, docs[i], b) THEN b ELSE docs[i]]
    ELSE Append(docs, b)

\* one upsert of book b under query q, issued by `by`
Upserted(by, b, q) ==
    /\ Len(upsert(db, b, q)) <= MaxDocs
    /\ db' = upsert(db, b, q)
    /\ written' = [kind |-> by, title |-> b.title, author |-> b.author,
                   rev |-> b.rev]

\* the upserts of SyosetuComCrawler, KakuyomuCrawler and NovelupCrawler, and
\* the last upsert of SyosetuOrgCrawler
CrawlerUpsert ==
    /\ \E b \in Snapshots : Upserted("crawler", b, QAnd(TitleIs, AuthorIs))
    /\ UNCHANGED notstore

\* the upsert of SyosetuOrgCrawler before each yield
SyosetuOrgEpisodeUpsert ==
    /\ \E b \in Snapshots : Upserted("syosetu_org", b, PyAnd(TitleIs, AuthorIs))
    /\ UNCHANGED notstore

\* the upsert of GPTTranslator and GeminiTranslator
TranslatorUpsert ==
    /\ \E b \in Snapshots : Upserted("gpt", b, QAnd(TitleIs, AuthorIs))
    /\ UNCHANGED notstore

\* the upsert of DeepLTranslator
DeepLUpsert ==
    /\ \E b \in Snapshots : Upserted("deepl", b, PyAnd(TitleIs, AuthorIs))
    /\ UNCHANGED notstore

InitStore ==
    /\ PipeIdle
    /\ CallIdle
    /\ ExportIdle
    /\ CrawlIdle
    /\ TextIdle
    /\ SessionIdle
    /\ ScopeIdle
    /\ TreeIdle
    /\ PromptIdle
    /\ GlossaryIdle
    /\ db = << >>
    /\ written = Nothing

NextStore ==
    \/ CrawlerUpsert
    \/ SyosetuOrgEpisodeUpsert
    \/ TranslatorUpsert
    \/ DeepLUpsert

SpecStore == InitStore /\ [][NextStore]_vars

(***************************************************************************)
(* Properties of the store (SpecStore).                                    *)
(***************************************************************************)
\* doc is the record of the (title, author) pair of b
SameBook(doc, b) == doc.title = b.title /\ doc.author = b.author

\* C11: every upsert creates or replaces only the record whose title and
\* author both equal the book's, leaves every record of another (title,
\* author) pair unchanged, and the store keeps one record per book
C11_UpsertKeyedByTitleAndAuthor ==
    [][written' # written \/ db' # db =>
        /\ \A i \in DOMAIN db :
            ~SameBook(db[i], written') =>
                i \in DOMAIN db' /\ db'[i] = db[i]
        /\ \E i \in DOMAIN db' :
            SameBook(db'[i], written') /\ db'[i].rev = written'.rev
        /\ \A i, j \in DOMAIN db' :
            SameBook(db'[i], db'[j]) => i = j]_vars

(***************************************************************************)
(* Properties of the pipeline (Spec), continued.                           *)
(***************************************************************************)
\* the source of task t is exhausted: its stream ended or raised
Exhausted(t) == crawlpc[t] \in {"done", "failed"}

\* the export stage has started
ExportStarted == mainpc \in {"export", "close", "done"} \/ exported # {}

\* C13: the fan-in loop has ended only if every source is exhausted and
\* every result was taken; the export stage has started only if, besides,
\* every scheduled translation step has finished
C13_ExportAfterAllSteps ==
    /\ mainpc = "gather" \/ ExportStarted =>
          /\ \A t \in Tasks : Exhausted(t)
          /\ ready = << >>
    /\ ExportStarted =>
          \A t \in Tasks : \A e \in DOMAIN aiotasks[t] :
              aiotasks[t][e].pc = "done"

\* the export stage starts with the translation steps of every episode of
\* both sources finished
C13_Witness ==
    /\ mainpc = "export"
    /\ \A t \in Tasks : Len(aiotasks[t]) = Episodes(t)

\* one step of main as the translation task e of task t sees it
ChainStep(t, e) ==
    LET x == aiotasks[t][e]
        y == aiotasks'[t][e]
        raised == /\ InChain(x)
                  /\ \E level \in {"warning", "critical"} :
                        LogEntry("translate", t, x.ep, x.k, level) \in log' \ log
    IN  \* the chain is entered at its first translator, with the episode
        /\ ~InChain(x) /\ InChain(y) => y.k = 1 /\ y.pre = book[t][x.ep]
        \* the next translator is the next of the list, and it receives the
        \* episode as the previous one left it
        /\ InChain(x) /\ InChain(y) /\ y.k # x.k =>
              /\ y.k = x.k + 1
              /\ y.pre = book[t][x.ep]
              /\ book' = book
        \* a translator that raises is followed by the next one, unless the
        \* episode has nothing left to translate
        /\ raised /\ x.k < Len(chain[t]) /\ ~fully_translated(book[t][x.ep]) =>
              InChain(y) /\ y.k = x.k + 1
        \* the chain ends after its last translator only, or with nothing
        \* left to translate
        /\ InChain(x) /\ y.pc = "done" =>
              x.k = Len(chain[t]) \/ fully_translated(book[t][x.ep])

\* C18: the translators of a task are applied to an episode in list order,
\* each from the episode as the previous one left it, and a translator that
\* raises is followed by the next one
C18_TranslatorsInListOrder ==
    [][\A t \in Tasks :
        \A e \in (DOMAIN aiotasks[t]) \cap (DOMAIN aiotasks'[t]) :
            ChainStep(t, e)]_vars

\* the first translator of task A raised on an episode after translating one
\* line of it, and the second translator translated another line
C18_Witness ==
    \E e \in DOMAIN book["A"] :
        /\ LogEntry("translate", "A", e, 1, "warning") \in log
        /\ \E i, j \in DOMAIN book["A"][e] :
              /\ book["A"][e][i].translated = chain["A"][1]
              /\ book["A"][e][j].translated = chain["A"][2]

\* the body of the fan-in loop runs: a result leaves the ready results
Delivered ==
    mainpc = "select" /\ mainpc' = "select" /\ Len(ready') < Len(ready)

\* C20: the result the fan-in loop handles is the one that became ready
\* first among those waiting, whatever the order of the sources in
\* config.tasks; its translation is scheduled for the task and the episode
\* the result names; and a result that is ready can be handled whatever the
\* state of the other sources
C20_ReadinessOrder ==
    /\ [][Delivered =>
            /\ ready' = Tail(ready)
            /\ Head(ready).ok =>
                  aiotasks' = [aiotasks EXCEPT ![Head(ready).src] =
                      Append(@, NewTask(Head(ready).src, Head(ready).ep))]
            /\ ~Head(ready).ok => aiotasks' = aiotasks]_vars
    /\ [](mainpc = "select" /\ ready # << >> =>
            ENABLED (MainPull \/ MainCrawlFailed))

\* the first result of source B was ready before the first result of source
\* A, registered first: it has been handled and its translation scheduled,
\* while the result of A still waits and A works on its next episode
C20_Witness ==
    /\ mainpc = "select"
    /\ Len(aiotasks["B"]) = 1 /\ aiotasks["B"][1].task = "B"
    /\ aiotasks["A"] = << >>
    /\ ready # << >> /\ Head(ready).src = "A"
    /\ crawlpc["A"] = "crawling"

(***************************************************************************)
(* The export stage (SpecExport): `for task in config.tasks` of main with  *)
(* action "export" or "all".                                               *)
(***************************************************************************)
\* config.tasks, in order
TaskList == <<"A", "B">>

\* task.exporter of the configurations explored: None, one name, a list of
\* names, and lists with a name that no role has; a single name is written
\* as a list of one
ExporterLists ==
    {<<"epub">>, <<"epub", "epub2">>, <<"nope", "epub">>, <<"epub", "nope">>}

ExportConfigs ==
    [none : {TRUE}, names : {<< >>}, stored : BOOLEAN]
    \cup [none : {FALSE}, names : ExporterLists, stored : BOOLEAN]

InitExport ==
    /\ PipeIdle
    /\ CallIdle
    /\ StoreIdle
    /\ CrawlIdle
    /\ TextIdle
    /\ SessionIdle
    /\ ScopeIdle
    /\ TreeIdle
    /\ PromptIdle
    /\ GlossaryIdle
    /\ xcfg \in [Tasks -> ExportConfigs]
    /\ xpc = "task"
    /\ xi = 1
    /\ xj = 0
    /\ invoked = {}
    /\ xlog = {}

\* the task of the current iteration
ThisTask == TaskList[xi]

\* if task.exporter is None: continue
ExportNone ==
    /\ xpc = "task" /\ xi <= Len(TaskList)
    /\ xcfg[ThisTask].none
    /\ xi' = xi + 1
    /\ UNCHANGED <<notexport, xcfg, xpc, xj, invoked, xlog>>

\* exporters = [get_role(e) for e in task.exporter]: a name that no role has
\* raises ValueError, outside every try of main
ExportRoleMissing ==
    /\ xpc = "task" /\ xi <= Len(TaskList)
    /\ ~xcfg[ThisTask].none
    /\ \E j \in DOMAIN xcfg[ThisTask].names :
            get_role(xcfg[ThisTask].names[j]) = "ValueError"
    /\ xpc' = "raised"
    /\ UNCHANGED <<notexport, xcfg, xi, xj, invoked, xlog>>

\* every name has a role
Registered(names) ==
    \A j \in DOMAIN names : get_role(names[j]) # "ValueError"

\* data = await ctx.db.get(q.url == task.url); if not data: critical, continue
ExportNoData ==
    /\ xpc = "task" /\ xi <= Len(TaskList)
    /\ ~xcfg[ThisTask].none
    /\ Registered(xcfg[ThisTask].names)
    /\ ~xcfg[ThisTask].stored
    /\ xlog' = xlog \cup {<<"nodata", ThisTask, 0>>}
    /\ xi' = xi + 1
    /\ UNCHANGED <<notexport, xcfg, xpc, xj, invoked>>

\* book = Book.model_validate(data); the loop over the exporters begins
ExportLoad ==
    /\ xpc = "task" /\ xi <= Len(TaskList)
    /\ ~xcfg[ThisTask].none
    /\ Registered(xcfg[ThisTask].names)
    /\ xcfg[ThisTask].stored
    /\ xpc' = "exporter"
    /\ xj' = 1
    /\ UNCHANGED <<notexport, xcfg, xi, invoked, xlog>>

\* after exporter xj: the next exporter, or the next task
ExportAdvance ==
    IF xj < Len(xcfg[ThisTask].names)
    THEN xj' = xj + 1 /\ UNCHANGED <<xi, xpc>>
    ELSE xj' = 0 /\ xi' = xi + 1 /\ xpc' = "task"

\* await exporter.export(book, task, ctx) returns
ExportOk ==
    /\ xpc = "exporter"
    /\ invoked' = invoked \cup {<<ThisTask, xj>>}
    /\ ExportAdvance
    /\ UNCHANGED <<notexport, xcfg, xlog>>

\* await exporter.export(book, task, ctx) raises an Exception: critical
ExportFail ==
    /\ xpc = "exporter"
    /\ invoked' = invoked \cup {<<ThisTask, xj>>}
    /\ xlog' = xlog \cup {<<"failed", ThisTask, xj>>}
    /\ ExportAdvance
    /\ UNCHANGED <<notexport, xcfg>>

\* the loop over config.tasks ends
ExportEnd ==
    /\ xpc = "task" /\ xi > Len(TaskList)
    /\ xpc' = "done"
    /\ UNCHANGED <<notexport, xcfg, xi, xj, invoked, xlog>>

NextExport ==
    \/ ExportNone
    \/ ExportRoleMissing
    \/ ExportNoData
    \/ ExportLoad
    \/ ExportOk
    \/ ExportFail
    \/ ExportEnd

SpecExport == InitExport /\ [][NextExport]_vars

\* the export stage is over, by the end of the loop or by an exception
ExportOver == xpc \in {"done", "raised"}

\* the exporters the stage owes a call: every registered exporter of every
\* task that names exporters and whose book is in the store
Owed ==
    UNION {{<<t, j>> : j \in {k \in DOMAIN xcfg[t].names :
                                get_role(xcfg[t].names[k]) # "ValueError"}} :
            t \in {u \in Tasks : ~xcfg[u].none /\ xcfg[u].stored}}

\* C14: when the export stage is over, every exporter owed a call was
\* invoked, whatever failed before it: an earlier exporter that raised, an
\* exporter name that is not registered, a task without a stored book
C14_ExportFailuresIsolated == ExportOver => Owed \subseteq invoked

(***************************************************************************)
(* crawl_stream of SyosetuComCrawler, KakuyomuCrawler, NovelupCrawler and  *)
(* SyosetuOrgCrawler over the episodes of one chapter (SpecCrawl): the      *)
(* four share the statements modelled here.                                *)
(***************************************************************************)
\* latest instant in the store and on the index page
MaxTime == 2
\* most episodes in the stored chapter and on the index page
MaxEpisodes == 2

\* the instant of the crawl: TimeMeta.saved_at of an episode made now
Now == MaxTime + 1

\* Episode.title of the episodes explored
EpisodeTitles == {"e1", "e2"}

\* an episode of the stored chapter: fetched by an earlier run at saved_at,
\* translated since or not
StoredEpisodes ==
    [title : EpisodeTitles, saved_at : 0..MaxTime, updated_at : {0},
     body : {"stored"}, translated : BOOLEAN]

\* an entry of the index page: subtitle and updated_at
IndexEntries == [title : EpisodeTitles, updated_at : 0..MaxTime]

\* the sequences over S of at most MaxEpisodes elements with distinct titles
DistinctTitled(S) ==
    {q \in UNION {[1..n -> S] : n \in 0..MaxEpisodes} :
        \A i, j \in DOMAIN q : q[i].title = q[j].title => i = j}

\* await self.get_episode(...): Episode(title, lines, TimeMeta(created_at,
\* updated_at)) with saved_at = utcnow and no translation
get_episode(entry) ==
    [title |-> entry.title, saved_at |-> Now, updated_at |-> entry.updated_at,
     body |-> "fetched", translated |-> FALSE]

\* Stale with <= in place of <
StaleOrSame(episode, updated_at) == episode.saved_at <= updated_at

\* episode.time_meta.saved_at < updated_at
Stale(episode, updated_at) == episode.saved_at < updated_at

\* chapter.get_episode(subtitle), as a position of chapter.episodes: the
\* first episode with that title, 0 for None
FindEpisode(episodes, title) ==
    IF \E q \in DOMAIN episodes : episodes[q].title = title
    THEN CHOOSE q \in DOMAIN episodes :
            /\ episodes[q].title = title
            /\ \A r \in 1..(q - 1) : episodes[r].title # title
    ELSE 0

InitCrawl ==
    /\ PipeIdle
    /\ CallIdle
    /\ StoreIdle
    /\ ExportIdle
    /\ TextIdle
    /\ SessionIdle
    /\ ScopeIdle
    /\ TreeIdle
    /\ PromptIdle
    /\ GlossaryIdle
    /\ kindex \in DistinctTitled(IndexEntries) \ {<< >>}
    /\ kstored \in DistinctTitled(StoredEpisodes)
    /\ kchap = << >>
    /\ kpc = "start"
    /\ ki = 0
    /\ kfetched = {}
    /\ kdb = kstored

\* the index page is fetched and parsed; data = await db.get(title & author);
\* book = Book.model_validate(data) or Book(title, author)
StreamLoad ==
    /\ kpc = "start"
    /\ kchap' = kstored
    /\ ki' = 1
    /\ kpc' = "index"
    /\ UNCHANGED <<notcrawl, kindex, kstored, kfetched, kdb>>

\* the entry of the index page the loop is at
Entry == kindex[ki]

\* the loop is at an entry of the index page
AtEntry == kpc = "index" /\ ki <= Len(kindex)

\* await db.upsert(book.model_dump(...), ...); yield task, book, chapter,
\* episode; the loop goes on with the next entry
Yielded(episodes) ==
    /\ kchap' = episodes
    /\ kdb' = episodes
    /\ ki' = ki + 1

\* the episode is in the chapter and saved_at < updated_at: its page is
\* fetched and the new episode takes its place
StreamStale ==
    /\ AtEntry
    /\ FindEpisode(kchap, Entry.title) # 0
    /\ LET q == FindEpisode(kchap, Entry.title)
       IN  /\ Stale(kchap[q], Entry.updated_at)
           /\ Yielded([kchap EXCEPT ![q] = get_episode(Entry)])
    /\ kfetched' = kfetched \cup {ki}
    /\ UNCHANGED <<notcrawl, kindex, kstored, kpc>>

\* the episode is in the chapter and is not older than the source: only
\* time_meta.updated_at is set
StreamFresh ==
    /\ AtEntry
    /\ FindEpisode(kchap, Entry.title) # 0
    /\ LET q == FindEpisode(kchap, Entry.title)
       IN  /\ ~Stale(kchap[q], Entry.updated_at)
           /\ Yielded([kchap EXCEPT ![q].updated_at = Entry.updated_at])
    /\ UNCHANGED <<notcrawl, kindex, kstored, kpc, kfetched>>

\* the episode is not in the chapter: its page is fetched and the episode is
\* appended
StreamNew ==
    /\ AtEntry
    /\ FindEpisode(kchap, Entry.title) = 0
    /\ Yielded(Append(kchap, get_episode(Entry)))
    /\ kfetched' = kfetched \cup {ki}
    /\ UNCHANGED <<notcrawl, kindex, kstored, kpc>>

\* get_episode raises (r.raise_for_status(), a parse error): crawl_stream
\* ends with the exception; time_meta.updated_at of a known episode is set
StreamFetchFail ==
    /\ AtEntry
    /\ LET q == FindEpisode(kchap, Entry.title)
       IN  /\ q # 0 => Stale(kchap[q], Entry.updated_at)
           /\ kchap' = IF q = 0 THEN kchap
                       ELSE [kchap EXCEPT ![q].updated_at = Entry.updated_at]
    /\ kfetched' = kfetched \cup {ki}
    /\ kpc' = "raised"
    /\ UNCHANGED <<notcrawl, kindex, kstored, ki, kdb>>

\* the index page is exhausted: the last db.upsert, crawl_stream returns
StreamEnd ==
    /\ kpc = "index" /\ ki > Len(kindex)
    /\ kdb' = kchap
    /\ kpc' = "done"
    /\ UNCHANGED <<notcrawl, kindex, kstored, kchap, ki, kfetched>>

NextCrawl ==
    \/ StreamLoad
    \/ StreamStale
    \/ StreamFresh
    \/ StreamNew
    \/ StreamFetchFail
    \/ StreamEnd

SpecCrawl == InitCrawl /\ [][NextCrawl]_vars

\* the entries of the index page the loop is done with
Processed == IF kpc \in {"index", "done"} THEN 1..(ki - 1) ELSE {}

\* the positions of the index page whose episode is not in the stored chapter
Unknown == {p \in DOMAIN kindex : FindEpisode(kstored, kindex[p].title) = 0}

\* C19: of the entries the crawl is done with, an episode that the stored
\* chapter holds was fetched iff its saved_at is earlier than the update
\* instant of the index page, and then the fetched episode stands where the
\* stored one stood; otherwise it stands there as stored, with its lines and
\* its translations; an episode that the stored chapter does not hold was
\* fetched and stands after the stored ones, in the order of the index page;
\* and nothing is fetched before the store was read
C19_StalenessDecidesRefetch ==
    /\ kfetched # {} => kpc # "start"
    /\ \A p \in Processed :
          LET q == FindEpisode(kstored, kindex[p].title)
          IN  IF q # 0
              THEN IF kstored[q].saved_at < kindex[p].updated_at
                   THEN /\ p \in kfetched
                        /\ kchap[q].title = kstored[q].title
                        /\ kchap[q].body = "fetched"
                        /\ kchap[q].saved_at = Now
                   ELSE /\ p \notin kfetched
                        /\ kchap[q].title = kstored[q].title
                        /\ kchap[q].body = "stored"
                        /\ kchap[q].translated = kstored[q].translated
                        /\ kchap[q].saved_at = kstored[q].saved_at
              ELSE LET n == Cardinality({r \in Unknown : r <= p})
                   IN  /\ p \in kfetched
                       /\ kchap[Len(kstored) + n].title = kindex[p].title
                       /\ kchap[Len(kstored) + n].body = "fetched"
    /\ kpc = "done" => Len(kchap) = Len(kstored) + Cardinality(Unknown)

\* a crawl has ended over a stored chapter of two episodes: the first was
\* older than the source and was fetched again, the second was not and keeps
\* its translations
C19_Witness ==
    /\ kpc = "done"
    /\ Len(kstored) = 2 /\ Len(kindex) = 2
    /\ kfetched = {FindEpisode(kindex, kstored[1].title)}
    /\ kchap[1].body = "fetched"
    /\ kchap[2].body = "stored" /\ kchap[2].translated

(***************************************************************************)
(* utils.py: escape_ruby / unescape_ruby and escape_repetition /           *)
(* unescape_repetition (SpecText). A string is the sequence of its         *)
(* characters; a tag of the markup counts as one character.                *)
(***************************************************************************)
\* the first position p >= i of s with s[p] in toks, 0 if there is none
RECURSIVE IndexFrom(_, _, _)
IndexFrom(s, i, toks) ==
    IF i > Len(s) THEN 0
    ELSE IF s[i] \in toks THEN i
    ELSE IndexFrom(s, i + 1, toks)

\* s[i..]
From(s, i) == SubSeq(s, i, Len(s))

\* str.replace: every occurrence of old, left to right, without overlap
RECURSIVE Replace(_, _, _)
Replace(s, old, new) ==
    IF Len(s) < Len(old) \/ old = << >> THEN s
    ELSE IF SubSeq(s, 1, Len(old)) = old
    THEN new \o Replace(From(s, Len(old) + 1), old, new)
    ELSE <<Head(s)>> \o Replace(Tail(s), old, new)

\* for match in matches: s = s.replace(match.full, match.replacement)
RECURSIVE ReplaceEach(_, _)
ReplaceEach(s, matches) ==
    IF matches = << >> THEN s
    ELSE ReplaceEach(Replace(s, Head(matches).full, Head(matches).replacement),
                     Tail(matches))

\* escape_keychars: [ ( ) get a backslash, ] does not
escape_keychars(s) ==
    Replace(Replace(Replace(s, <<"[">>, <<"\\", "[">>),
                    <<"(">>, <<"\\", "(">>),
            <<")">>, <<"\\", ")">>)

\* unescape_keychars
unescape_keychars(s) ==
    Replace(Replace(Replace(s, <<"\\", "[">>, <<"[">>),
                    <<"\\", "(">>, <<"(">>),
            <<"\\", ")">>, <<")">>)

\* the characters that open and close the notation in _un_ruby_re and
\* _un_rep_re: the square brackets and the lenticular brackets U+3010 and
\* U+3011, written U3010 and U3011
Openers == {"[", "U3010"}
Closers == {"]", "U3011"}

\* (?<!\\) at position i of s
NotEscaped(s, i) == i = 1 \/ s[i - 1] # "\\"

\* the children of a ruby element: text outside rb and rt and the text of rb
\* make the base, the text of rt makes the top
RECURSIVE Children(_, _, _)
Children(inner, i, in_rt) ==
    IF i > Len(inner) THEN [base |-> << >>, top |-> << >>]
    ELSE LET c == inner[i]
             rest == Children(inner, i + 1,
                              IF c = "<rt>" THEN TRUE
                              ELSE IF c = "</rt>" THEN FALSE ELSE in_rt)
         IN  IF c \in {"<rb>", "</rb>", "<rt>", "</rt>"} THEN rest
             ELSE IF in_rt THEN [rest EXCEPT !.top = <<c>> \o @]
             ELSE [rest EXCEPT !.base = <<c>> \o @]

\* _ruby_re.findall(s), from position i on: <ruby>.*?</ruby>, each with its
\* replacement [base](^top)
RECURSIVE ruby_re(_, _)
ruby_re(s, i) ==
    LET a == IndexFrom(s, i, {"<ruby>"})
        b == IF a = 0 THEN 0 ELSE IndexFrom(s, a + 1, {"</ruby>"})
    IN  IF a = 0 \/ b = 0 THEN << >>
        ELSE LET c == Children(SubSeq(s, a + 1, b - 1), 1, FALSE)
             IN  <<[full |-> SubSeq(s, a, b),
                    replacement |->
                        <<"[">> \o escape_keychars(c.base) \o <<"]", "(", "^">>
                        \o escape_keychars(c.top) \o <<")">>]>>
                 \o ruby_re(s, b + 1)

\* escape_ruby
escape_ruby(s) == ReplaceEach(s, ruby_re(s, 1))

\* the end of a match of _un_ruby_re that opens at a and closes its first
\* group at j: the first unescaped ) after (^, 0 if the match fails
RubyEnd(s, j) ==
    IF j + 2 <= Len(s) /\ s[j + 1] = "(" /\ s[j + 2] = "^"
    THEN LET K == {k \in (j + 3)..Len(s) : s[k] = ")" /\ NotEscaped(s, k)}
         IN  IF K = {} THEN 0 ELSE CHOOSE k \in K : \A l \in K : k <= l
    ELSE 0

\* the shortest first group for which the rest of the pattern matches
Lazy(s, a, End(_, _)) ==
    LET J == {j \in (a + 1)..Len(s) : s[j] \in Closers /\ End(s, j) # 0}
    IN  IF J = {} THEN 0 ELSE CHOOSE j \in J : \A l \in J : j <= l

\* the leftmost position >= i where the pattern matches, 0 if there is none
Leftmost(s, i, End(_, _)) ==
    LET A == {a \in i..Len(s) :
                s[a] \in Openers /\ NotEscaped(s, a) /\ Lazy(s, a, End) # 0}
    IN  IF A = {} THEN 0 ELSE CHOOSE a \in A : \A l \in A : a <= l

\* _un_ruby_re.findall(s), from position i on, each match with its
\* replacement <ruby><rb>base</rb><rt>top</rt></ruby>
RECURSIVE un_ruby_re(_, _)
un_ruby_re(s, i) ==
    LET a == Leftmost(s, i, RubyEnd)
    IN  IF a = 0 THEN << >>
        ELSE LET j == Lazy(s, a, RubyEnd)
                 k == RubyEnd(s, j)
             IN  <<[full |-> SubSeq(s, a, k),
                    replacement |->
                        <<"<ruby>", "<rb>">>
                        \o unescape_keychars(SubSeq(s, a + 1, j - 1))
                        \o <<"</rb>", "<rt>">>
                        \o unescape_keychars(SubSeq(s, j + 3, k - 1))
                        \o <<"</rt>", "</ruby>">>]>>
                 \o un_ruby_re(s, k + 1)

\* unescape_ruby
unescape_ruby(s) == ReplaceEach(s, un_ruby_re(s, 1))

\* _rep_re = ((.)\2{8,}): a character and at least this many repeats of it
MinRepeats == 8

\* the length of the run of s[i] that starts at position i
RECURSIVE RunLength(_, _)
RunLength(s, i) ==
    IF i < Len(s) /\ s[i + 1] = s[i] THEN 1 + RunLength(s, i + 1) ELSE 1

\* the decimal digits
Digits == <<"0", "1", "2", "3", "4", "5", "6", "7", "8", "9">>

\* f"{rep_n}"
RECURSIVE DecStr(_)
DecStr(n) ==
    IF n < 10 THEN <<Digits[n + 1]>>
    ELSE DecStr(n \div 10) \o <<Digits[(n % 10) + 1]>>

\* int(rep_n) of a string of digits
RECURSIVE DecInt(_)
DecInt(d) ==
    IF d = << >> THEN 0
    ELSE 10 * DecInt(SubSeq(d, 1, Len(d) - 1))
         + (CHOOSE v \in 0..9 : Digits[v + 1] = d[Len(d)])

\* pattern * rep_n
RECURSIVE Repeat(_, _)
Repeat(pattern, n) == IF n = 0 THEN << >> ELSE pattern \o Repeat(pattern, n - 1)

\* _rep_re.findall(s), from position i on: the runs of MinRepeats + 1
\* characters or more, each with its replacement [pattern](*rep_n)
RECURSIVE rep_re(_, _)
rep_re(s, i) ==
    IF i > Len(s) THEN << >>
    ELSE LET n == RunLength(s, i)
         IN  IF n > MinRepeats
             THEN <<[full |-> SubSeq(s, i, i + n - 1),
                     replacement |->
                        <<"[">> \o escape_keychars(<<s[i]>>) \o <<"]", "(", "*">>
                        \o DecStr(n) \o <<")">>]>>
                  \o rep_re(s, i + n)
             ELSE rep_re(s, i + 1)

\* escape_repetition
escape_repetition(s) == ReplaceEach(s, rep_re(s, 1))

\* the end of a match of _un_rep_re that closes its first group at j: (*,
\* digits, ); 0 if the match fails
RepEnd(s, j) ==
    IF j + 2 <= Len(s) /\ s[j + 1] = "(" /\ s[j + 2] = "*"
    THEN LET k == IndexFrom(s, j + 3, {c \in {s[p] : p \in DOMAIN s} :
                                        \A v \in DOMAIN Digits : Digits[v] # c})
         IN  IF k > j + 3 /\ s[k] = ")" THEN k ELSE 0
    ELSE 0

\* _un_rep_re.findall(s), from position i on, each match with its
\* replacement pattern * rep_n
RECURSIVE un_rep_re(_, _)
un_rep_re(s, i) ==
    LET a == Leftmost(s, i, RepEnd)
    IN  IF a = 0 THEN << >>
        ELSE LET j == Lazy(s, a, RepEnd)
                 k == RepEnd(s, j)
             IN  <<[full |-> SubSeq(s, a, k),
                    replacement |->
                        Repeat(unescape_keychars(SubSeq(s, a + 1, j - 1)),
                               DecInt(SubSeq(s, j + 3, k - 1)))]>>
                 \o un_rep_re(s, k + 1)

\* unescape_repetition
unescape_repetition(s) == ReplaceEach(s, un_rep_re(s, 1))

\* longest base and reading text of the ruby elements explored
MaxText == 2
\* longest run of the strings explored
MaxRun == 10

\* the characters of the base and reading texts explored
RubyChars == {"a", "[", "]", "(", ")"}

RubyTexts == UNION {[1..n -> RubyChars] : n \in 1..MaxText}

\* <ruby><rb>base</rb><rt>top</rt></ruby>, or the same without the rb tags,
\* alone or between two characters
RubyInputs ==
    {(IF x.pad THEN <<"a">> ELSE << >>)
     \o <<"<ruby>">>
     \o (IF x.rb THEN <<"<rb>">> \o x.base \o <<"</rb>">> ELSE x.base)
     \o <<"<rt>">> \o x.top \o <<"</rt>", "</ruby>">>
     \o (IF x.pad THEN <<"a">> ELSE << >>) :
        x \in [pad : BOOLEAN, rb : BOOLEAN, base : RubyTexts, top : RubyTexts]}

\* the characters of the runs explored
RepChars == {"a", "[", "(", ")", "\\"}

\* a single character, and runs around the threshold of _rep_re
RunLengths == {1} \cup (MinRepeats..MaxRun)

\* a run, then nothing or one character, then nothing or another run
RepInputs ==
    {Repeat(<<x.c1>>, x.n1)
     \o (IF x.sep = "" THEN << >> ELSE <<x.sep>>)
     \o (IF x.n2 = 0 THEN << >> ELSE Repeat(<<x.c2>>, x.n2)) :
        x \in [c1 : RepChars, n1 : RunLengths, sep : RepChars \cup {""},
               c2 : RepChars, n2 : RunLengths \cup {0}]}

\* the newline character
Newline == "NL"

\* r"\n": a backslash and the letter n
EscapedNewline == <<"\\", "n">>

\* '\n'.join(c)
RECURSIVE JoinLines(_)
JoinLines(c) ==
    IF c = << >> THEN << >>
    ELSE IF Len(c) = 1 THEN c[1]
    ELSE c[1] \o <<Newline>> \o JoinLines(Tail(c))

\* s.split('\n')
RECURSIVE SplitLines(_)
SplitLines(s) ==
    LET p == IndexFrom(s, 1, {Newline})
    IN  IF p = 0 THEN <<s>>
        ELSE <<SubSeq(s, 1, p - 1)>> \o SplitLines(From(s, p + 1))

\* pstr of a list of lines: the newlines of every line escaped, the lines
\* joined, escape_repetition, then escape_ruby (convert_ruby)
Encoded(c) ==
    escape_ruby(escape_repetition(
        JoinLines([k \in DOMAIN c |-> Replace(c[k], <<Newline>>, EscapedNewline)])))

\* obj of a response: unescape_ruby, unescape_repetition, split, the escaped
\* newlines restored, the empty strings dropped
Decoded(resp) ==
    LET parts == SplitLines(unescape_repetition(unescape_ruby(resp)))
        back == [k \in DOMAIN parts |->
                    Replace(parts[k], EscapedNewline, <<Newline>>)]
    IN  SelectSeq(back, LAMBDA x : x # << >>)

\* longest line of the batches explored
MaxLineLen == 2
\* most lines of a batch explored
MaxBatch == 2

\* the characters of the lines of the batches explored
ChannelChars == {"a", "n", "\\", Newline}

\* the non-blank lines explored
ChannelLines ==
    {l \in UNION {[1..n -> ChannelChars] : n \in 1..MaxLineLen} :
        \E k \in DOMAIN l : l[k] # Newline}

\* the batches explored
ChannelBatches == UNION {[1..n -> ChannelLines] : n \in 1..MaxBatch}

InitText ==
    /\ PipeIdle
    /\ CallIdle
    /\ StoreIdle
    /\ ExportIdle
    /\ CrawlIdle
    /\ SessionIdle
    /\ ScopeIdle
    /\ TreeIdle
    /\ PromptIdle
    /\ GlossaryIdle
    /\ \/ tkind = "ruby" /\ tin \in RubyInputs
       \/ tkind = "repetition" /\ tin \in RepInputs
       \/ tkind = "channel" /\ tin \in ChannelBatches
    /\ tesc = << >>
    /\ tback = << >>
    /\ tpc = "input"

\* escape_ruby(s)
EscapeRuby ==
    /\ tpc = "input" /\ tkind = "ruby"
    /\ tesc' = escape_ruby(tin)
    /\ tpc' = "escaped"
    /\ UNCHANGED <<nottext, tkind, tin, tback>>

\* unescape_ruby(escape_ruby(s))
UnescapeRuby ==
    /\ tpc = "escaped" /\ tkind = "ruby"
    /\ tback' = unescape_ruby(tesc)
    /\ tpc' = "unescaped"
    /\ UNCHANGED <<nottext, tkind, tin, tesc>>

\* escape_repetition(s)
EscapeRepetition ==
    /\ tpc = "input" /\ tkind = "repetition"
    /\ tesc' = escape_repetition(tin)
    /\ tpc' = "escaped"
    /\ UNCHANGED <<nottext, tkind, tin, tback>>

\* unescape_repetition(escape_repetition(s))
UnescapeRepetition ==
    /\ tpc = "escaped" /\ tkind = "repetition"
    /\ tback' = unescape_repetition(tesc)
    /\ tpc' = "unescaped"
    /\ UNCHANGED <<nottext, tkind, tin, tesc>>

\* the inner translate(c) of a list of lines up to the request
ChannelSend ==
    /\ tpc = "input" /\ tkind = "channel"
    /\ tesc' = Encoded(tin)
    /\ tpc' = "escaped"
    /\ UNCHANGED <<nottext, tkind, tin, tback>>

\* the backend answers with the text it was sent: obj
ChannelReceive ==
    /\ tpc = "escaped" /\ tkind = "channel"
    /\ tback' = Decoded(tesc)
    /\ tpc' = "unescaped"
    /\ UNCHANGED <<nottext, tkind, tin, tesc>>

NextText ==
    \/ ChannelSend
    \/ ChannelReceive
    \/ EscapeRuby
    \/ UnescapeRuby
    \/ EscapeRepetition
    \/ UnescapeRepetition

SpecText == InitText /\ [][NextText]_vars

\* C21: escape_ruby followed by unescape_ruby gives the input back
C21_RubyRoundTrip ==
    tkind = "ruby" /\ tpc = "unescaped" => tback = tin

\* the runs of s from position i on, as (character, length) pairs
RECURSIVE RunsOf(_, _)
RunsOf(s, i) ==
    IF i > Len(s) THEN << >>
    ELSE <<[c |-> s[i], n |-> RunLength(s, i)]>>
         \o RunsOf(s, i + RunLength(s, i))

\* the text a run is expected to become: [unit](*count) with the unit
\* escaped for a run of MinRepeats + 1 or more, itself for a shorter one
RECURSIVE Expected(_)
Expected(runs) ==
    IF runs = << >> THEN << >>
    ELSE (IF Head(runs).n > MinRepeats
          THEN <<"[">> \o escape_keychars(<<Head(runs).c>>) \o <<"]", "(", "*">>
               \o DecStr(Head(runs).n) \o <<")">>
          ELSE Repeat(<<Head(runs).c>>, Head(runs).n))
         \o Expected(Tail(runs))

\* C22: escape_repetition rewrites the runs of 9 or more as [unit](*count)
\* with count the length of the run and leaves the rest as it is, and
\* unescape_repetition gives the input back
C22_RepetitionRoundTrip ==
    /\ tkind = "repetition" /\ tpc # "input" => tesc = Expected(RunsOf(tin, 1))
    /\ tkind = "repetition" /\ tpc = "unescaped" => tback = tin


(***************************************************************************)
(* SpecSession: the message history of one session.  translate() appends   *)
(* the episode prompt (Gemini) and the reminder, then sends the batches    *)
(* one after the other; every attempt ends in the finally clause that      *)
(* counts the cycle.  sess.messages is a reference to a list object, which *)
(* append and send extend in place; the history stays below max_tokens, so *)
(* that sess.trim removes nothing.                                          *)
(***************************************************************************)

\* the attempts explored over the calls of one session
MaxAttempts == 6
\* the largest remind_interval explored
MaxInterval == 3
\* max_retries of the translator whose session is examined
SessRetries == 2

\* Message(role=..., content=...): what the message is, who said it, and
\* the attempt that added it (0 for the prompt and the reminder)
Message(kind, role, att) == [kind |-> kind, role |-> role, att |-> att]

\* the two messages remind() appends
Reminder == <<Message("remind", "user", 0), Message("remind", "model", 0)>>

\* the episode prompt and its canned answer, which Gemini's translate appends
ExPrompt == <<Message("prompt", "user", 0), Message("prompt", "model", 0)>>

\* the first n of the two messages attempt att adds: the request, the response
Exchange(att, n) ==
    SubSeq(<<Message("batch", "user", att), Message("batch", "model", att)>>,
           1, n)

\* sess.messages
History == hlists[hmsgs]

\* sess.append / sess.send on the list sess.messages refers to
Appended(lists, m, msgs) == [lists EXCEPT ![m] = @ \o msgs]

\* remind(): GPT's appends only with a glossary, Gemini's always
remind(kind, gloss, lists, m) ==
    IF kind = "gpt" /\ ~gloss THEN lists ELSE Appended(lists, m, Reminder)

\* the finally clause of an attempt: cycle += 1, and past the interval the
\* reminder and cycle = 0
Finally(kind, gloss, interval, cycle, lists, m) ==
    IF interval # Unlimited /\ cycle + 1 >= interval
    THEN [lists |-> remind(kind, gloss, lists, m), cycle |-> 0]
    ELSE [lists |-> lists, cycle |-> cycle + 1]

\* the restore leaves the history as the failed attempt left it
RestoreNothing(lists, m) == [lists |-> lists, msgs |-> m]
\* sess.messages = sess_bak.copy(): a new list with the messages of sess_bak
RestoreCopy(lists, m) == [lists |-> [lists EXCEPT ![1] = lists[2]], msgs |-> 1]

\* sess.messages = sess_bak: sess.messages refers to the list sess_bak
RestoreAlias(lists, m) == [lists |-> lists, msgs |-> 2]

\* the except clause's restore of the translator class
Restored(kind, lists, m) ==
    IF kind = "gpt" THEN RestoreCopy(lists, m) ELSE RestoreAlias(lists, m)

InitSession ==
    /\ PipeIdle
    /\ CallIdle
    /\ StoreIdle
    /\ ExportIdle
    /\ CrawlIdle
    /\ TextIdle
    /\ ScopeIdle
    /\ TreeIdle
    /\ PromptIdle
    /\ GlossaryIdle
    /\ hkind \in {"gpt", "gemini"}
    /\ hgloss \in BOOLEAN
    /\ hinterval \in {Unlimited} \cup (1..MaxInterval)
    /\ hlists = << << >>, << >> >>
    /\ hmsgs = 1
    /\ hsnap = << >>
    /\ hcycle = 0 /\ hretry = 0 /\ hatt = 0 /\ hfailed = {}
    /\ hlast = "none"
    /\ hpc = "idle"

\* translate() up to the first batch: the episode prompt, remind(), cycle = 0
SessCallBegin ==
    /\ hpc = "idle" /\ hatt < MaxAttempts
    /\ hlists' = remind(hkind, hgloss,
                        IF hkind = "gemini"
                        THEN Appended(hlists, hmsgs, ExPrompt) ELSE hlists,
                        hmsgs)
    /\ hcycle' = 0
    /\ hlast' = "none"
    /\ hpc' = "call"
    /\ UNCHANGED <<notsession, hkind, hgloss, hinterval, hmsgs, hsnap, hretry,
                   hatt, hfailed>>

\* the inner translate(c) up to its loop: sess_bak = sess.messages.copy(),
\* retry = 0 (the history becomes list 1, the copy list 2)
SessBatchBegin ==
    /\ hpc = "call" /\ hatt < MaxAttempts
    /\ hlists' = <<History, History>>
    /\ hmsgs' = 1
    /\ hsnap' = History
    /\ hretry' = 0
    /\ hlast' = "none"
    /\ hpc' = "loop"
    /\ UNCHANGED <<notsession, hkind, hgloss, hinterval, hcycle, hatt,
                   hfailed>>

\* an attempt whose response is accepted: request and response stay in the
\* history, finally, return
SessAccepted ==
    /\ hpc = "loop" /\ hatt < MaxAttempts
    /\ LET fin == Finally(hkind, hgloss, hinterval, hcycle,
                          Appended(hlists, hmsgs, Exchange(hatt + 1, 2)), hmsgs)
       IN  /\ hlists' = fin.lists
           /\ hcycle' = fin.cycle
    /\ hatt' = hatt + 1
    /\ hlast' = "ok"
    /\ hpc' = "call"
    /\ UNCHANGED <<notsession, hkind, hgloss, hinterval, hmsgs, hsnap, hretry,
                   hfailed>>

\* an attempt that raises an Exception after the session took n of its
\* messages: the restore, retry += 1, RuntimeError or continue, finally
SessRejected ==
    /\ hpc = "loop" /\ hatt < MaxAttempts
    /\ \E n \in 0..2 :
        LET back == Restored(hkind, Appended(hlists, hmsgs, Exchange(hatt + 1, n)),
                             hmsgs)
            fin == Finally(hkind, hgloss, hinterval, hcycle, back.lists,
                           back.msgs)
        IN  /\ hlists' = fin.lists
            /\ hmsgs' = back.msgs
            /\ hcycle' = fin.cycle
    /\ hretry' = hretry + 1
    /\ hatt' = hatt + 1
    /\ hfailed' = hfailed \cup {hatt + 1}
    /\ hlast' = "failed"
    /\ hpc' = IF Exceeded(hretry + 1, SessRetries) THEN "idle" ELSE "loop"
    /\ UNCHANGED <<notsession, hkind, hgloss, hinterval, hsnap>>

\* Gemini: send raises ContentBlockedError after the session took n of the
\* attempt's messages; it is raised again, and finally runs on the way out
SessBlocked ==
    /\ hpc = "loop" /\ hatt < MaxAttempts
    /\ hkind = "gemini"
    /\ \E n \in 0..1 :
        LET fin == Finally(hkind, hgloss, hinterval, hcycle,
                           Appended(hlists, hmsgs, Exchange(hatt + 1, n)), hmsgs)
        IN  /\ hlists' = fin.lists
            /\ hcycle' = fin.cycle
    /\ hatt' = hatt + 1
    /\ hlast' = "blocked"
    /\ hpc' = "idle"
    /\ UNCHANGED <<notsession, hkind, hgloss, hinterval, hmsgs, hsnap, hretry,
                   hfailed>>

\* the last batch of the episode was accepted: translate() returns
SessCallEnd ==
    /\ hpc = "call" /\ hlast = "ok"
    /\ hlast' = "none"
    /\ hpc' = "idle"
    /\ UNCHANGED <<notsession, hkind, hgloss, hinterval, hlists, hmsgs, hsnap,
                   hcycle, hretry, hatt, hfailed>>

NextSession ==
    \/ SessCallBegin
    \/ SessBatchBegin
    \/ SessAccepted
    \/ SessRejected
    \/ SessBlocked
    \/ SessCallEnd

SpecSession == InitSession /\ [][NextSession]_vars

\* no message of a failed attempt is in the history
NoFailedMessage == \A i \in 1..Len(History) : History[i].att \notin hfailed

\* the history is the one the batch was first sent with, followed by
\* nothing but reminders
SnapshotThenReminders ==
    /\ Len(History) >= Len(hsnap)
    /\ SubSeq(History, 1, Len(hsnap)) = hsnap
    /\ \A i \in (Len(hsnap) + 1)..Len(History) : History[i].kind = "remind"

\* C23: GPTTranslator: after a failed attempt the history holds no message of
\* a failed attempt and is the one the batch was first sent with (followed at
\* most by reminders), and no message of a failed attempt is ever in the
\* history an attempt is sent with
C23_GptRollback ==
    hkind = "gpt" =>
        /\ hlast = "failed" => NoFailedMessage /\ SnapshotThenReminders
        /\ hpc = "loop" => NoFailedMessage

\* a second attempt of a GPT batch has failed after the session took its
\* request and response
C23_Witness ==
    /\ hkind = "gpt" /\ hlast = "failed" /\ hretry = 2
    /\ Cardinality(hfailed) >= 2
    /\ Len(hsnap) > 0

\* C24: GeminiTranslator: after a failed attempt, the first or a later one,
\* the history holds no message of a failed attempt and is the one the batch
\* was first sent with, followed at most by reminders
C24_GeminiRollback ==
    hkind = "gemini" /\ hlast = "failed" =>
        NoFailedMessage /\ SnapshotThenReminders


\* a step in which the backend answers a Gemini request with
\* ContentBlockedError: translate raises it at once, no wait is counted, retry
\* is as it was and no line, title or note of the episode is written
C25_BlockedStep ==
    cfg.kind = "gemini" /\ cpc = "send" /\ lastresp'.kind = "blocked" =>
        /\ cpc' = "raised" /\ err' = "ContentBlockedError"
        /\ retry' = retry
        /\ waits' = (IF req.fresh THEN 0 ELSE waits)
        /\ epi' = epi /\ bookm' = bookm /\ chapm' = chapm
        /\ upserts' = upserts

\* once ContentBlockedError left translate, nothing is sent, waited for,
\* written or stored
C25_AfterBlocked ==
    err = "ContentBlockedError" =>
        UNCHANGED <<tries, waits, retry, batches, epi, bookm, chapm, upserts,
                    cpc>>

\* C25: GeminiTranslator: a ContentBlockedError leaves translate on its first
\* occurrence: the batch is not sent again, no backoff wait happens, the retry
\* counter does not change or decide anything, and no line is modified
C25_BlockedPropagatesAtOnce ==
    [][C25_BlockedStep /\ C25_AfterBlocked]_vars

\* a line batch was blocked on an attempt that followed a failed one, with
\* retries left
C25_Witness ==
    /\ cfg.kind = "gemini" /\ err = "ContentBlockedError"
    /\ req.kind = "lines" /\ retry >= 1 /\ ~Exceeded(retry + 1, cfg.maxr)
    /\ \E k \in 1..Len(req.indexes) : epi.lines[req.indexes[k]].translated = None


\* the characters of the lines of a batch: the sum of len(line.content) over
\* the indexes of the batch
RECURSIVE BatchChars(_, _)
BatchChars(lines, indexes) ==
    IF indexes = << >> THEN 0
    ELSE Len(lines[Head(indexes)].content) + BatchChars(lines, Tail(indexes))

\* C26: every line batch GPTTranslator or GeminiTranslator sends holds at most
\* batch_size characters of line content
C26_BatchWithinBudget ==
    cfg # Nothing /\ cfg.kind \in {"gpt", "gemini"} =>
        \A b \in 1..Len(batches) : BatchChars(epi.lines, batches[b]) <= cfg.bsize


\* the most requests of batches that follow one another in the messages of h
\* from position i on with no reminder between them; cur is the count since
\* the last reminder
RECURSIVE LongestRun(_, _, _)
LongestRun(h, i, cur) ==
    IF i > Len(h) THEN cur
    ELSE IF h[i].kind = "remind"
    THEN LET rest == LongestRun(h, i + 1, 0)
         IN  IF cur > rest THEN cur ELSE rest
    ELSE LongestRun(h, i + 1,
                    IF h[i].kind = "batch" /\ h[i].role = "user"
                    THEN cur + 1 ELSE cur)

\* C27: with remind_interval = N and a glossary, at no point of a translate
\* call the history holds more than N batch exchanges in a row without a
\* reminder between them
C27_ReminderEveryN ==
    hgloss /\ hinterval # Unlimited /\ hpc \in {"call", "loop"} =>
        LongestRun(History, 1, 0) <= hinterval


\* a step in which a response to a line batch is accepted that holds a
\* whitespace-only value: nothing is raised, and every value of the response
\* is written to its line
C28_BlankStep ==
    /\ cfg.kind \in {"gpt", "gemini"}
    /\ answers' # answers
    /\ FirstBlank(answers'[Len(answers')]) > 0
    => /\ err' = None /\ cpc' # "raised"
       /\ epi'.lines = ApplyBatch(epi.lines, req.indexes,
                                  answers'[Len(answers')], cfg.kind)

\* C28: a whitespace-only translation in an accepted response is no error:
\* the other lines of the batch are written and the call goes on to its next
\* batch or to the upsert, in a batch flushed inside the loop and in the one
\* flushed after it
C28_BlankIsWarning == [][C28_BlankStep]_vars


(***************************************************************************)
(* SpecScope: translate calls of translators of several names on several   *)
(* tasks, each of which fetches or makes its session and sends with it.    *)
(***************************************************************************)

\* the translate calls explored
MaxCalls == 4
\* the names of the translators (self.name)
ScopeNames == {"x", "y"}
\* the key is not in task.extra
NoSession == 0

\* dict.get with its default evaluated, but the session kept under no key
GetAlwaysDefault(d, name, default) == default
\* task.extra.get(self.name, default)
Get(d, name, default) ==
    IF d[name] # NoSession THEN d[name] ELSE default

InitScope ==
    /\ PipeIdle
    /\ CallIdle
    /\ StoreIdle
    /\ ExportIdle
    /\ CrawlIdle
    /\ TextIdle
    /\ SessionIdle
    /\ TreeIdle
    /\ PromptIdle
    /\ GlossaryIdle
    /\ oextra = [t \in Tasks |-> [n \in ScopeNames |-> NoSession]]
    /\ onew = 0
    /\ ohist = << >>
    /\ ocalls = << >>
    /\ ocur = Nothing

\* sess = task.extra.get(self.name, self.backend.new_session());
\* task.extra[self.name] = sess
ScopeBegin ==
    /\ ocur = Nothing /\ Len(ocalls) < MaxCalls
    /\ \E t \in Tasks, n \in ScopeNames :
        LET sess == Get(oextra[t], n, onew + 1)
            hist == Append(ohist, 0)
        IN  /\ onew' = onew + 1
            /\ ohist' = hist
            /\ oextra' = [oextra EXCEPT ![t][n] = sess]
            /\ ocur' = [kind |-> "call", task |-> t, name |-> n,
                        sess |-> sess, held |-> hist[sess]]
    /\ UNCHANGED <<notscope, ocalls>>

\* the rest of the call: its messages are appended to the session
ScopeSend ==
    /\ ocur # Nothing
    /\ ohist' = [ohist EXCEPT ![ocur.sess] = @ + 1]
    /\ ocalls' = Append(ocalls, ocur)
    /\ ocur' = Nothing
    /\ UNCHANGED <<notscope, oextra, onew>>

NextScope ==
    \/ ScopeBegin
    \/ ScopeSend

SpecScope == InitScope /\ [][NextScope]_vars

\* the calls made and the one running
ScopeCalls == IF ocur = Nothing THEN ocalls ELSE Append(ocalls, ocur)

\* C29: two calls use the same session object iff they are calls of the same
\* task and translator name; the session of a call is the one kept in
\* task.extra under the translator's name; the first call of a pair finds a
\* session that holds nothing, and a later one finds the messages of every
\* earlier call of the pair
C29_SessionPerTaskAndName ==
    LET cs == ScopeCalls
    IN  \A i \in 1..Len(cs) :
            /\ oextra[cs[i].task][cs[i].name] = cs[i].sess
            /\ cs[i].held =
                Cardinality({j \in 1..(i - 1) :
                    /\ cs[j].task = cs[i].task
                    /\ cs[j].name = cs[i].name})
            /\ \A j \in 1..Len(cs) :
                cs[i].sess = cs[j].sess
                <=> /\ cs[i].task = cs[j].task
                    /\ cs[i].name = cs[j].name

\* a translator was called twice for one task, and between its calls another
\* translator for that task and the same translator for another task
C29_Witness ==
    /\ Len(ocalls) = 4
    /\ ocalls[1].task = ocalls[4].task /\ ocalls[1].name = ocalls[4].name
    /\ ocalls[2].task = ocalls[1].task /\ ocalls[2].name # ocalls[1].name
    /\ ocalls[3].task # ocalls[1].task /\ ocalls[3].name = ocalls[1].name
    /\ ocalls[4].held = 1


(***************************************************************************)
(* SpecTree: crawl_stream of SyosetuComCrawler and NovelupCrawler over an  *)
(* index page of chapter titles and episode entries.                       *)
(***************************************************************************)

\* most entries on the index page
MaxEntries == 3
\* most crawl runs against one store
MaxRuns == 2

\* the crawler classes explored: SyosetuComCrawler (NovelupCrawler and
\* KakuyomuCrawler read the episode title as it does) and SyosetuOrgCrawler
TreeSites == {"syosetu_com", "syosetu_org"}

\* the subtitles of the index pages explored, one of them with " - " in it
TreeTitles == EpisodeTitles \cup {"e1 - 2"}

\* s.split(" - ", maxsplit=2)[0], over the subtitles explored
FirstPart(s) == IF s = "e1 - 2" THEN "e1" ELSE s

\* title of get_episode: the text of the title element of the episode page,
\* which shows the subtitle of the index page; SyosetuOrgCrawler reads it
\* from the content of og:title, "<subtitle> - <book> - <site>", up to the
\* first " - "
PageTitle(site, subtitle) ==
    IF site = "syosetu_org" THEN FirstPart(subtitle) ELSE subtitle

\* await self.get_episode(episode_url, ...) of the crawler of this site
Fetched(site, entry) ==
    [get_episode(entry) EXCEPT !.title = PageTitle(site, entry.title)]

\* Chapter(title=..., episodes=...)
Chapter(title, episodes) == [title |-> title, episodes |-> episodes]

\* an episode of the stored record, saved at instant 0
StoredEpisode(title) ==
    [title |-> title, saved_at |-> 0, updated_at |-> 0, body |-> "stored",
     translated |-> FALSE]

\* an entry of the index page: a chapter title, or an episode with its
\* subtitle and update instant
TreeEntries ==
    {[kind |-> "chapter", title |-> "c1", updated_at |-> 0]}
    \cup {[kind |-> "episode", title |-> t, updated_at |-> u] :
            t \in TreeTitles, u \in 0..1}

\* the index pages explored
TreeIndexes == UNION {[1..n -> TreeEntries] : n \in 1..MaxEntries}

\* book.chapters of the records a finished crawl leaves in the store: no
\* record, episodes outside any chapter, a named chapter
TreeStored ==
    {<< >>,
     <<Chapter("", <<StoredEpisode("e1")>>)>>,
     <<Chapter("c1", <<StoredEpisode("e1")>>)>>,
     <<Chapter("", <<StoredEpisode("e1")>>),
       Chapter("c1", <<StoredEpisode("e2")>>)>>}

\* book.get_chapter(title), as a position of book.chapters: the first chapter
\* with that title, 0 for None
FindChapter(chapters, title) ==
    IF \E q \in DOMAIN chapters : chapters[q].title = title
    THEN CHOOSE q \in DOMAIN chapters :
            /\ chapters[q].title = title
            /\ \A r \in 1..(q - 1) : chapters[r].title # title
    ELSE 0

\* list.remove(x): s without its element at position q
RemoveAt(s, q) == SubSeq(s, 1, q - 1) \o SubSeq(s, q + 1, Len(s))

\* if not default_chapter.episodes: book.chapters.remove(default_chapter)
DropEmptyDefault(chapters) ==
    LET d == FindChapter(chapters, "")
    IN  IF chapters[d].episodes = << >> THEN RemoveAt(chapters, d)
        ELSE chapters

InitTree ==
    /\ PipeIdle
    /\ CallIdle
    /\ StoreIdle
    /\ ExportIdle
    /\ CrawlIdle
    /\ TextIdle
    /\ SessionIdle
    /\ ScopeIdle
    /\ PromptIdle
    /\ GlossaryIdle
    /\ bindex \in TreeIndexes
    /\ bstored \in TreeStored
    /\ bbook = << >>
    /\ bchapter = 0
    /\ bi = 0
    /\ bpc = "start"
    /\ bdb = bstored
    /\ bsite \in TreeSites
    /\ bruns = 1

\* the index page is fetched; the book is read from the store or made; the
\* default chapter is found or appended, and is the current chapter
TreeLoad ==
    /\ bpc = "start"
    /\ LET chapters == IF FindChapter(bstored, "") = 0
                       THEN Append(bstored, Chapter("", << >>))
                       ELSE bstored
       IN  /\ bbook' = chapters
           /\ bchapter' = FindChapter(chapters, "")
    /\ bi' = 1
    /\ bpc' = "index"
    /\ UNCHANGED <<nottree, bsite, bruns, bindex, bstored, bdb>>

\* the loop is at an entry of the index page of this kind
AtTreeEntry(kind) ==
    bpc = "index" /\ bi <= Len(bindex) /\ bindex[bi].kind = kind

\* a chapter title: the chapter is found in the book or appended to it
TreeChapter ==
    /\ AtTreeEntry("chapter")
    /\ LET old == FindChapter(bbook, bindex[bi].title)
       IN  IF old = 0
           THEN /\ bbook' = Append(bbook, Chapter(bindex[bi].title, << >>))
                /\ bchapter' = Len(bbook) + 1
           ELSE /\ bbook' = bbook
                /\ bchapter' = old
    /\ bi' = bi + 1
    /\ UNCHANGED <<nottree, bsite, bruns, bindex, bstored, bpc, bdb>>

\* TreeEpisode that yields the episode without db.upsert
TreeEpisodeUnsaved ==
    /\ AtTreeEntry("episode")
    /\ LET episodes == bbook[bchapter].episodes
           q == FindEpisode(episodes, bindex[bi].title)
           after ==
               IF q = 0 THEN Append(episodes, Fetched(bsite, bindex[bi]))
               ELSE IF Stale(episodes[q], bindex[bi].updated_at)
               THEN [episodes EXCEPT ![q] = Fetched(bsite, bindex[bi])]
               ELSE [episodes EXCEPT ![q].updated_at = bindex[bi].updated_at]
       IN  bbook' = [bbook EXCEPT ![bchapter].episodes = after]
    /\ bi' = bi + 1
    /\ UNCHANGED <<nottree, bsite, bruns, bindex, bstored, bchapter, bpc, bdb>>

\* an episode entry whose episode is fetched or kept: the episode is
\* replaced where it stands when it is stale, left when it is not, appended
\* when the chapter does not hold it; db.upsert; yield
TreeEpisode ==
    /\ AtTreeEntry("episode")
    /\ LET episodes == bbook[bchapter].episodes
           q == FindEpisode(episodes, bindex[bi].title)
           after ==
               IF q = 0 THEN Append(episodes, Fetched(bsite, bindex[bi]))
               ELSE IF Stale(episodes[q], bindex[bi].updated_at)
               THEN [episodes EXCEPT ![q] = Fetched(bsite, bindex[bi])]
               ELSE [episodes EXCEPT ![q].updated_at = bindex[bi].updated_at]
       IN  bbook' = [bbook EXCEPT ![bchapter].episodes = after]
    /\ bdb' = bbook'
    /\ bi' = bi + 1
    /\ UNCHANGED <<nottree, bsite, bruns, bindex, bstored, bchapter, bpc>>

\* get_episode raises: crawl_stream ends with the exception
TreeFetchFail ==
    /\ AtTreeEntry("episode")
    /\ LET episodes == bbook[bchapter].episodes
           q == FindEpisode(episodes, bindex[bi].title)
       IN  /\ q # 0 => Stale(episodes[q], bindex[bi].updated_at)
           /\ bbook' = IF q = 0 THEN bbook
                       ELSE [bbook EXCEPT ![bchapter].episodes[q].updated_at =
                                            bindex[bi].updated_at]
    /\ bpc' = "raised"
    /\ UNCHANGED <<nottree, bsite, bruns, bindex, bstored, bchapter, bi, bdb>>

\* the index page is exhausted: the empty default chapter is removed, the
\* last db.upsert, crawl_stream returns
TreeEnd ==
    /\ bpc = "index" /\ bi > Len(bindex)
    /\ bbook' = DropEmptyDefault(bbook)
    /\ bdb' = bbook'
    /\ bpc' = "done"
    /\ UNCHANGED <<nottree, bsite, bruns, bindex, bstored, bchapter, bi>>

\* the program is run again on the same task against the same store
TreeRerun ==
    /\ bpc \in {"done", "raised"}
    /\ bruns < MaxRuns
    /\ bruns' = bruns + 1
    /\ bstored' = bdb
    /\ bbook' = << >>
    /\ bchapter' = 0
    /\ bi' = 0
    /\ bpc' = "start"
    /\ UNCHANGED <<nottree, bsite, bindex, bdb>>

NextTree ==
    \/ TreeRerun
    \/ TreeLoad
    \/ TreeChapter
    \/ TreeEpisode
    \/ TreeFetchFail
    \/ TreeEnd

SpecTree == InitTree /\ [][NextTree]_vars

\* chapters c holds what chapters b held: every chapter of b is in c with
\* every episode it had
Keeps(b, c) ==
    \A q \in DOMAIN b :
        LET r == FindChapter(c, b[q].title)
        IN  /\ r # 0
            /\ \A e \in DOMAIN b[q].episodes :
                FindEpisode(c[r].episodes, b[q].episodes[e].title) # 0

\* a step of the crawl keeps every chapter and episode of the book, or it is
\* the end of the crawl and removes nothing but the empty default chapter
C30_NothingRemovedStep ==
    bpc \in {"index"} =>
        \/ Keeps(bbook, bbook')
        \/ /\ bpc' = "done"
           /\ \E d \in DOMAIN bbook :
                /\ bbook[d] = Chapter("", << >>)
                /\ bbook' = RemoveAt(bbook, d)

\* the stored record holds no default chapter without episodes
NoEmptyPlaceholder == \A q \in DOMAIN bdb : bdb[q] # Chapter("", << >>)

\* C30: during a crawl no chapter and no episode is removed from the book
\* but the default chapter, removed at the end iff it is empty; and once the
\* crawl has ended, by its return or by an exception, the stored record holds
\* no empty default chapter
C30_OnlyEmptyPlaceholderRemoved ==
    /\ [][C30_NothingRemovedStep]_vars
    /\ [][bpc' = "done" /\ bpc # "done" =>
            \A q \in DOMAIN bbook' : bbook'[q] # Chapter("", << >>)]_vars
    /\ [](bpc \in {"done", "raised"} => NoEmptyPlaceholder)


\* a translation step of some task is in progress or waits for its lock
TranslationPending ==
    \E t \in Tasks : \E e \in DOMAIN aiotasks[t] :
        aiotasks[t][e].pc \in {"waitlock", "lines", "upsert"}

\* the loop body as the translation steps see it: no lock, book or record is
\* touched, the steps scheduled before are where they were, the new one has
\* not started, and main is in the loop for the next result
C31_DeliveryStep ==
    Delivered =>
        /\ lock' = lock /\ book' = book /\ store' = store
        /\ crawlpc' = crawlpc
        /\ \A t \in Tasks : \A e \in DOMAIN aiotasks[t] :
                aiotasks'[t][e] = aiotasks[t][e]
        /\ \A t \in Tasks : \A e \in DOMAIN aiotasks'[t] :
                e \notin DOMAIN aiotasks[t] => aiotasks'[t][e].pc = "new"

\* C31: handling a result only schedules its translation, which has not
\* started when the loop goes on, and a ready result can be handled whatever
\* translation is in progress or waits for a lock
C31_DeliveryNeverWaits ==
    /\ [][C31_DeliveryStep]_vars
    /\ [](mainpc = "select" /\ ready # << >> /\ TranslationPending =>
            ENABLED (MainPull \/ MainCrawlFailed))

\* a result of source B is ready while a translation of task A is in
\* progress, another one of A waits for the lock, and the result is handled
C31_Witness ==
    /\ mainpc = "select"
    /\ \E e \in DOMAIN aiotasks["A"] : InChain(aiotasks["A"][e])
    /\ \E e \in DOMAIN aiotasks["A"] : aiotasks["A"][e].pc = "waitlock"
    /\ \E e \in DOMAIN aiotasks["B"] : aiotasks["B"][e].pc = "new"


\* C32: a batch of non-blank lines that is escaped, joined, encoded, echoed by
\* the backend, decoded, split and restored comes back with the same number
\* of lines and the same contents
C32_ChannelRoundTrip ==
    tkind = "channel" /\ tpc = "unescaped" => tback = tin



(***************************************************************************)
(* SpecPrompt: translate calls of one GPTTranslator instance, found by     *)
(* get_role under the same name by two tasks. The task lock admits one     *)
(* call per task at a time; calls of different tasks interleave at every   *)
(* await of a request.                                                     *)
(***************************************************************************)

\* the translate calls explored per task
MaxPromptCalls == 2
\* the requests explored per call
MaxSends == 2

\* prompt: built from the task's languages and glossaries, the book of the
\* task and the metadata of the episode
Prompt(t, e) == [kind |-> "prompt", task |-> t, ep |-> e]

InitPrompt ==
    /\ PipeIdle
    /\ CallIdle
    /\ StoreIdle
    /\ ExportIdle
    /\ CrawlIdle
    /\ TextIdle
    /\ SessionIdle
    /\ ScopeIdle
    /\ TreeIdle
    /\ GlossaryIdle
    /\ qprompt = Nothing
    /\ qpc = [t \in Tasks |-> "idle"]
    /\ qep = [t \in Tasks |-> 0]
    /\ qn = [t \in Tasks |-> 0]
    /\ qsent = << >>

\* translate up to `self.backend.prompt = prompt`: no await on the way
PromptBegin(t) ==
    /\ qpc[t] = "idle" /\ qep[t] < MaxPromptCalls
    /\ qep' = [qep EXCEPT ![t] = @ + 1]
    /\ qprompt' = Prompt(t, qep[t] + 1)
    /\ qpc' = [qpc EXCEPT ![t] = "call"]
    /\ qn' = [qn EXCEPT ![t] = 0]
    /\ UNCHANGED <<notprompt, qsent>>

\* sess.stream(pstr): the request goes out under the prompt the backend
\* holds now
PromptSend(t) ==
    /\ qpc[t] = "call" /\ qn[t] < MaxSends
    /\ qsent' = Append(qsent, [task |-> t, ep |-> qep[t], prompt |-> qprompt])
    /\ qn' = [qn EXCEPT ![t] = @ + 1]
    /\ UNCHANGED <<notprompt, qprompt, qpc, qep>>

\* the call returns or raises
PromptEnd(t) ==
    /\ qpc[t] = "call"
    /\ qpc' = [qpc EXCEPT ![t] = "idle"]
    /\ UNCHANGED <<notprompt, qprompt, qep, qn, qsent>>

NextPrompt ==
    \E t \in Tasks :
        \/ PromptBegin(t)
        \/ PromptSend(t)
        \/ PromptEnd(t)

SpecPrompt == InitPrompt /\ [][NextPrompt]_vars

\* C33: every request of a translate call for task T and episode E went out
\* under the system prompt built from T and E, whatever the calls of the
\* other task did meanwhile
C33_OwnPrompt ==
    \A i \in DOMAIN qsent :
        qsent[i].prompt = Prompt(qsent[i].task, qsent[i].ep)



\* a step releases the lock of task t only as the step of its holder: the
\* crawl wrapper leaving crawl_stream (at a yield, at its end or by its
\* exception), or the translation step leaving its `async with`; and the
\* wrapper does not call release where it does not hold the lock
C34_Step ==
    \A t \in Tasks :
        /\ crawlpc'[t] # "released_unheld"
        /\ lock[t].locked /\ lock'[t] # lock[t] /\ ~lock'[t].locked =>
            \/ crawlpc[t] = "crawling" /\ crawlpc'[t] # "crawling"
            \/ \E e \in DOMAIN aiotasks[t] :
                /\ InChain(aiotasks[t][e])
                /\ e \in DOMAIN aiotasks'[t] => ~InChain(aiotasks'[t][e])

\* C34: the task lock is released only by the unit that holds it, also when
\* the crawl wrapper is ended at its yield or while it waits to acquire the
\* lock again: it never calls release on a lock it does not hold
C34_ReleasedByHolder == [][C34_Step]_vars



\* the translation step of the e-th result of task t is past the entry of its
\* `async with task.lock`
Entered(t, e) == e \in DOMAIN aiotasks[t] /\ aiotasks[t][e].pc \notin {"new", "waitlock"}

\* a step in which a translation step of a task with translators enters its
\* critical section is taken when the steps of all earlier episodes of the
\* task have entered theirs
C36_Step ==
    \A t \in Tasks : \A e \in DOMAIN aiotasks[t] :
        /\ chain[t] # << >>
        /\ ~Entered(t, e)
        /\ e \in DOMAIN aiotasks'[t]
        /\ aiotasks'[t][e].pc \in {"lines", "upsert", "done", "failed"}
        => \A e1 \in 1..(e - 1) : Entered(t, e1)

\* C36: within one task the translation steps enter their critical sections
\* in the order in which the source yielded their episodes
C36_EnterInYieldOrder == [][C36_Step]_vars

\* the step of the second episode of a task is in its critical section, the
\* step of the first episode has left its own
C36_Witness ==
    \E t \in Tasks :
        /\ Len(aiotasks[t]) >= 2
        /\ aiotasks[t][1].pc = "done"
        /\ InChain(aiotasks[t][2])
        /\ aiotasks[t][2].seen >= 2



(***************************************************************************)
(* SpecFair: the pipeline under the scheduling of the event loop. A ready  *)
(* callback is run, and every crawler step and backend call returns or     *)
(* raises: a step of the run that can be taken is taken. Nothing obliges    *)
(* the user to interrupt.                                                  *)
(***************************************************************************)
Uninterrupted == Next /\ mainpc' # "cancelled"

SpecFair == Spec /\ WF_vars(Uninterrupted)

\* the translation step of the e-th result of task t has returned or raised
Finished(t, e) == e \in DOMAIN aiotasks[t] /\ aiotasks[t][e].pc \in {"done", "failed"}

\* every translator name of every task is registered
AllRegistered ==
    \A t \in Tasks : \A p \in 1..Len(chain[t]) : get_role(chain[t][p]) # "ValueError"

\* the source of task t has ended and no translation step of t is in its
\* critical section
SourceEndedAndQuiet(t) ==
    /\ crawlpc[t] \in {"done", "failed"}
    /\ \A e \in DOMAIN aiotasks[t] : ~InChain(aiotasks[t][e])

\* C35: unless the user interrupts the run, every scheduled translation step
\* eventually has the lock and finishes, a source that has ended leaves the
\* lock free, and the run reaches the export stage
C35_ReachesExport ==
    /\ \A t \in Tasks : \A e \in 1..NumEpisodes :
        [](At(t, e, "new") => <>(Finished(t, e) \/ mainpc = "cancelled"))
    /\ [](\A t \in Tasks : Running /\ SourceEndedAndQuiet(t) => ~lock[t].locked)
    /\ <>(mainpc \in {"export", "close", "done", "cancelled"})



\* no two elements of s have the same title
DistinctTitles(s) == \A i, j \in DOMAIN s : s[i].title = s[j].title => i = j

\* C37: whatever crawl runs were made against the store, the stored book has
\* no two chapters with the same title and none of its chapters has two
\* episodes with the same title
C37_NoDuplicateTitles ==
    /\ DistinctTitles(bdb)
    /\ \A q \in DOMAIN bdb : DistinctTitles(bdb[q].episodes)



\* the episode crawl_stream yields for the index entry it is at: the fetched
\* one, or the one of the chapter with its updated_at set
YieldedEpisode ==
    LET episodes == bbook[bchapter].episodes
        q == FindEpisode(episodes, bindex[bi].title)
    IN  IF q = 0 \/ Stale(episodes[q], bindex[bi].updated_at)
        THEN Fetched(bsite, bindex[bi])
        ELSE [episodes[q] EXCEPT !.updated_at = bindex[bi].updated_at]

\* a step that yields an episode leaves in the store the book as it is at the
\* yield, the yielded episode in its chapter; the step in which crawl_stream
\* returns leaves in the store the book as it is then
C38_Step ==
    /\ AtTreeEntry("episode") /\ bpc' = "index" /\ bi' = bi + 1 =>
        /\ bdb' = bbook'
        /\ \E q \in DOMAIN bdb'[bchapter].episodes :
            bdb'[bchapter].episodes[q] = YieldedEpisode
    /\ bpc = "index" /\ bpc' = "done" => bdb' = bbook'

\* C38: every episode is yielded after an upsert of a snapshot of the book
\* that holds it, and crawl_stream upserts once more after its last yield,
\* before it returns
C38_PersistedBeforeYield == [][C38_Step]_vars

\* a first run over an index page of a chapter and two episodes has returned:
\* the default chapter was stored empty at the yields and is gone from the
\* store after the last upsert
C38_Witness ==
    /\ bpc = "done" /\ bruns = 1
    /\ Len(bindex) = 3 /\ bindex[1].kind = "chapter"
    /\ bstored = << >>
    /\ Len(bdb) = 1 /\ Len(bdb[1].episodes) = 2



(***************************************************************************)
(* SpecGlossary: translate of DeepLTranslator, one call after another on   *)
(* one backend: the glossary is uploaded before the try block and deleted  *)
(* in its finally.                                                         *)
(***************************************************************************)

\* the translate calls explored
MaxGlossaryCalls == 2
\* most requests of one try block: the metadata fields that are due and the
\* lines
MaxRequests == 2

\* gid = None
NoGlossary == 0

\* the calls explored
GlossaryConfigs == [gloss : BOOLEAN, pair : BOOLEAN, book : BOOLEAN, pending : BOOLEAN]

InitGlossary ==
    /\ PipeIdle
    /\ CallIdle
    /\ StoreIdle
    /\ ExportIdle
    /\ CrawlIdle
    /\ TextIdle
    /\ SessionIdle
    /\ ScopeIdle
    /\ TreeIdle
    /\ PromptIdle
    /\ gcfg = Nothing
    /\ gpc = "idle"
    /\ gid = NoGlossary
    /\ glive = {}
    /\ gmade = 0
    /\ gdel = << >>
    /\ gleft = 0
    /\ gexit = "none"
    /\ gcalls = 0

\* translate up to `if glossaries`: the pending lines are collected, the
\* call returns at once when there is none
GlossaryBegin ==
    /\ gpc \in {"idle", "done", "raised"}
    /\ gcalls < MaxGlossaryCalls
    /\ gcalls' = gcalls + 1
    /\ gcfg' \in GlossaryConfigs
    /\ gleft' \in 1..MaxRequests
    /\ gid' = NoGlossary
    /\ gexit' = "none"
    /\ gpc' = IF ~gcfg'.pending THEN "done"
              ELSE IF gcfg'.gloss THEN "pairs" ELSE "request"
    /\ UNCHANGED <<notglossary, glive, gmade, gdel>>

\* pairs = await self.backend.glossary_available_pairs(); without the pair a
\* warning, and gid stays None
GlossaryPairs ==
    /\ gpc = "pairs"
    /\ gpc' = IF gcfg.pair THEN "create" ELSE "request"
    /\ UNCHANGED <<notglossary, gcfg, gid, glive, gmade, gdel, gleft, gexit, gcalls>>

\* gid = (await self.backend.glossary_create(...)).glossary_id
GlossaryCreate ==
    /\ gpc = "create"
    /\ gmade' = gmade + 1
    /\ gid' = gmade + 1
    /\ glive' = glive \cup {gmade + 1}
    /\ gpc' = "request"
    /\ UNCHANGED <<notglossary, gcfg, gdel, gleft, gexit, gcalls>>

\* glossary_available_pairs or glossary_create raises: no glossary was made,
\* and the call is not in its try block yet
GlossarySetupFail ==
    /\ gpc \in {"pairs", "create"}
    /\ gpc' = "raised"
    /\ UNCHANGED <<notglossary, gcfg, gid, glive, gmade, gdel, gleft, gexit, gcalls>>

\* GlossaryRequestFail without the finally: the exception leaves translate
GlossaryRequestFailUnwound ==
    /\ gpc = "request"
    /\ gpc' = "raised"
    /\ gexit' = "raise"
    /\ UNCHANGED <<notglossary, gcfg, gid, glive, gmade, gdel, gleft, gcalls>>

\* a metadata request or the line request raises: on to the finally
GlossaryRequestFail ==
    /\ gpc = "request"
    /\ gpc' = "finally"
    /\ gexit' = "raise"
    /\ UNCHANGED <<notglossary, gcfg, gid, glive, gmade, gdel, gleft, gcalls>>

\* a metadata request or the line request returns; after the last one the
\* upsert when a book was passed, else `return episode`
GlossaryRequest ==
    /\ gpc = "request"
    /\ gleft' = gleft - 1
    /\ IF gleft > 1 THEN gpc' = "request" /\ gexit' = gexit
       ELSE IF gcfg.book THEN gpc' = "upsert" /\ gexit' = gexit
       ELSE gpc' = "finally" /\ gexit' = "return"
    /\ UNCHANGED <<notglossary, gcfg, gid, glive, gmade, gdel, gcalls>>

\* await ctx.db.upsert(...); return episode
GlossaryUpsert ==
    /\ gpc = "upsert"
    /\ gpc' = "finally"
    /\ gexit' = "return"
    /\ UNCHANGED <<notglossary, gcfg, gid, glive, gmade, gdel, gleft, gcalls>>

\* ctx.db.upsert raises
GlossaryUpsertFail ==
    /\ gpc = "upsert"
    /\ gpc' = "finally"
    /\ gexit' = "raise"
    /\ UNCHANGED <<notglossary, gcfg, gid, glive, gmade, gdel, gleft, gcalls>>

\* finally: if gid: await self.backend.glossary_delete(gid); then the call
\* returns or the exception goes on
GlossaryFinally ==
    /\ gpc = "finally"
    /\ IF gid # NoGlossary
       THEN /\ glive' = glive \ {gid}
            /\ gdel' = Append(gdel, gid)
       ELSE UNCHANGED <<glive, gdel>>
    /\ gpc' = IF gexit = "return" THEN "done" ELSE "raised"
    /\ UNCHANGED <<notglossary, gcfg, gid, gmade, gleft, gexit, gcalls>>

NextGlossary ==
    \/ GlossaryBegin
    \/ GlossaryPairs
    \/ GlossaryCreate
    \/ GlossarySetupFail
    \/ GlossaryRequest
    \/ GlossaryRequestFail
    \/ GlossaryUpsert
    \/ GlossaryUpsertFail
    \/ GlossaryFinally

SpecGlossary == InitGlossary /\ [][NextGlossary]_vars

\* the number of glossary_delete calls made with this id
Deletions(id) == Cardinality({i \in DOMAIN gdel : gdel[i] = id})

\* C39: glossary_delete is called only with the id of a glossary that was
\* made and never twice with one id; and when no translate call is running,
\* by return or by exception, every glossary made so far was deleted once and
\* the backend holds none
C39_NoGlossaryLeak ==
    /\ \A i \in DOMAIN gdel : gdel[i] \in 1..gmade /\ Deletions(gdel[i]) = 1
    /\ gpc \in {"idle", "done", "raised"} =>
        /\ glive = {}
        /\ \A id \in 1..gmade : Deletions(id) = 1

\* two calls have made a glossary each; the second was left by an exception
\* raised in its try block, and both glossaries were deleted
C39_Witness ==
    /\ gpc = "raised" /\ gexit = "raise"
    /\ gcalls = 2 /\ gmade = 2
    /\ gdel = <<1, 2>>
    /\ glive = {}

====
